---- MODULE Spec2Model ----
(***************************************************************************)
(* MockMate: the question-generation pipeline (interviewapp/qgen_groq.py,  *)
(* interviewapp/views_helpers.py), the answer scorer                       *)
(* (interviewapp/nlp_utils.py) and the session views                       *)
(* (interviewapp/views.py).                                                *)
(*                                                                         *)
(* Texts are TLA+ strings; the Python string methods the code uses         *)
(* (lower, split, strip, join, "in") are operators computed on the         *)
(* characters.  The specifications of the module:                          *)
(*   Spec         one call of generate_questions_groq, one step per client *)
(*                call / stub draw;                                        *)
(*   SpecScore    one call of analyze_transcript;                          *)
(*   SpecSugg     one call of generate_session_suggestions;                *)
(*   SpecEnrich   one call of _ensure_math_has_number;                     *)
(*   SpecSig      signature_of_text on two texts;                          *)
(*   SpecChat     one call of _call_groq_chat (SpecChatLive: with          *)
(*                progress of its retry loop);                             *)
(*   SpecTwo      two calls of generate_questions_groq, interleaved;       *)
(*   SpecSwap     the math swap of the main loop on its own;               *)
(*   SpecQuota    the math quota of an iteration for n in 1..30;           *)
(*   SpecSession  the requests on one interview session;                   *)
(*   SpecFlow     a session whose user follows the pages.                  *)
(***************************************************************************)
EXTENDS Integers, Sequences, FiniteSets, TLC

(***************************************************************************)
(* State                                                                   *)
(***************************************************************************)
VARIABLES
    \* --- generate_questions_groq(role, n, difficulty) ---
    pc,               \* "main" | "enforce" | "replace" | "backfill" | "done" | "raised"
    role,             \* argument role
    n,                \* argument n
    difficulty,       \* argument difficulty
    api_key_set,      \* GROQ_API_KEY is non-empty
    dev_force_create, \* DEV_FORCE_CREATE
    collected,        \* list of question dicts of the main loop
    seen_sigs,        \* set of signatures
    attempts,         \* main-loop attempt counter
    math_count,       \* number of collected items of type math
    kept,             \* enforce_role_allowed_types: kept
    removed_slots,    \* enforce_role_allowed_types: removed_slots
    r_attempts,       \* enforce_role_allowed_types: attempts
    r_max_attempts,   \* enforce_role_allowed_types: max_attempts
    final,            \* list final
    missing,          \* stub-loop iterations still to run
    result,           \* the returned list
    got_response,     \* some call of _call_groq_chat has returned a response
    prompts,          \* the prompts passed to _call_groq_chat so far
    last_call,        \* the latest client call: "" | "raised" | "unparsable" | "array"
    \* --- analyze_transcript(text, question) ---
    a_pc,             \* "call" | "tips" | "done" | "raised"
    a_text,           \* argument text
    a_question,       \* argument question
    a_result,         \* the returned dict
    a_locals,         \* the local variables of the scoring block
    a_tokenized,      \* nlp(text): "no" (not called) | "ok" | "failed"
    a_matched_kw,     \* the keyword matching ran
    a_client_calls,   \* calls of _call_groq_chat made by the scorer
    a_ai,             \* what the tips call of the scorer produced
    \* --- generate_session_suggestions(session, answers) ---
    s_pc,             \* "call" | "done" | "raised"
    s_answers,        \* argument answers
    s_response,       \* what the client call produced
    s_result,         \* the returned dict
    s_client_calls,   \* calls of _call_groq_chat made
    \* --- one call of a helper function ---
    f_pc,             \* "call" | "done"
    f_arg,            \* the argument
    f_ret,            \* the returned value
    \* --- _call_groq_chat(prompt) ---
    c_pc,             \* "loop" | "returned" | "raised"
    c_key,            \* GROQ_API_KEY is non-empty
    c_attempt,        \* HTTP attempts made so far
    c_outcomes,       \* what each attempt met, in order
    c_last_exc,       \* last_exc: the attempt that failed last and how
    c_ret,            \* the returned content
    \* --- two calls of generate_questions_groq at once ---
    t_frames,         \* per call: pc and the locals of the main loop
    t_last,           \* the step taken last: which call, what it received
    \* --- views.py: one interview session and the tables it touches ---
    v_pc,             \* "start" (no session yet) | "live"
    v_role,           \* session.role, the raw role key of the form
    v_n,              \* n_questions of the form
    v_db,             \* GeneratedQuestion rows, the id is the position
    v_answers,        \* Answer rows of the session, the id is the position
    v_current_index,  \* session.current_index
    v_completed,      \* session.completed
    v_messages,       \* the messages start_session queued for the user
    v_started,        \* number of Answer rows start_session created
    v_total_score,    \* session.total_score
    v_resp            \* the response to the last request

gen_vars == <<pc, role, n, difficulty, api_key_set, dev_force_create,
              collected, seen_sigs, attempts, math_count, kept,
              removed_slots, r_attempts, r_max_attempts, final, missing,
              result, got_response, prompts, last_call>>

score_vars == <<a_pc, a_text, a_question, a_result, a_locals, a_tokenized,
                a_matched_kw, a_client_calls, a_ai>>

sugg_vars == <<s_pc, s_answers, s_response, s_result, s_client_calls>>

\* the state of the operations other than the generator and the scorer
fn_vars == <<f_pc, f_arg, f_ret>>

chat_vars == <<c_pc, c_key, c_attempt, c_outcomes, c_last_exc, c_ret>>

two_vars == <<t_frames, t_last>>

\* the state of the operations modelled after _call_groq_chat
sess_vars == <<v_pc, v_role, v_n, v_db, v_answers, v_current_index,
               v_completed, v_messages, v_started, v_total_score, v_resp>>

ext_vars == <<two_vars, sess_vars>>

aux_vars == <<sugg_vars, fn_vars, chat_vars, ext_vars>>

vars == <<gen_vars, score_vars, aux_vars>>

(***************************************************************************)
(* Bounds of the model                                                     *)
(***************************************************************************)
\* largest requested question count n (forms.py allows 1..30)
MaxN == 2
\* largest number of items in one parsed service response
MaxBatch == 1
\* largest number of filler tokens put into a generated answer text
MaxFillers == 6
\* largest number of padding words put into a generated answer text
MaxPad == 21
\* largest number of question keywords put into a generated answer text
MaxKw == 3
\* largest number of tips in a list returned by the tips service
MaxAiTips == 6
\* largest number of answers of a session passed to the suggestions
MaxAnswers == 6
\* largest number of items in a list of the suggestions service's object
MaxSugg == 7
\* length of the longest question text passed to _ensure_math_has_number
MaxTextLen == 985
\* length of the longest text passed to signature_of_text
MaxSigLen == 4
\* largest n of a call whose swap step is examined
MaxSwapN == 3
\* largest n_questions of a session (forms.py allows 1..30)
MaxSessN == 2
\* largest number of math items in a collected list whose quota is examined
MaxQuotaMath == 2

(***************************************************************************)
(* Python string primitives                                                *)
(***************************************************************************)
Min(a, b) == IF a < b THEN a ELSE b
Max(a, b) == IF a > b THEN a ELSE b

UpperChars == "ABCDEFGHIJKLMNOPQRSTUVWXYZ"
LowerChars == "abcdefghijklmnopqrstuvwxyz"
DigitChars == "0123456789"

\* the characters of s as a set of one-character strings
CharsOf(s) == {SubSeq(s, i, i) : i \in 1..Len(s)}

\* position of the one-character string c in s, 0 when absent
IndexOf(c, s) ==
    IF \E i \in 1..Len(s) : SubSeq(s, i, i) = c
    THEN CHOOSE i \in 1..Len(s) : SubSeq(s, i, i) = c
    ELSE 0

\* the lower-case letter of every upper-case letter
LowerTable ==
    [c \in CharsOf(UpperChars) |->
        SubSeq(LowerChars, IndexOf(c, UpperChars), IndexOf(c, UpperChars))]
DigitSet == CharsOf(DigitChars)

LowerChar(c) == IF c \in DOMAIN LowerTable THEN LowerTable[c] ELSE c

RECURSIVE LowerFrom(_, _, _)
\* the characters i..j of s in lower case, by halves
LowerFrom(s, i, j) ==
    IF i > j THEN ""
    ELSE IF i = j THEN LowerChar(SubSeq(s, i, i))
    ELSE LowerFrom(s, i, (i + j) \div 2)
         \o LowerFrom(s, ((i + j) \div 2) + 1, j)

\* str.lower()
lower(s) == LowerFrom(s, 1, Len(s))

IsSpace(c) == c \in {" ", "\t", "\n"}
IsDigit(c) == c \in DigitSet

\* Python's  w in s  for strings
Contains(s, w) ==
    \E i \in 1..(Len(s) - Len(w) + 1) : SubSeq(s, i, i + Len(w) - 1) = w

\* the positions of s where a word begins: a character that is not
\* whitespace, at the start or after whitespace
WordStarts(s) ==
    {i \in 1..Len(s) :
        /\ ~IsSpace(SubSeq(s, i, i))
        /\ (i = 1 \/ IsSpace(SubSeq(s, i - 1, i - 1)))}

\* the word of s that begins at position i
WordAt(s, i) ==
    LET ends == {j \in i..Len(s) :
                    j = Len(s) \/ IsSpace(SubSeq(s, j + 1, j + 1))}
    IN  SubSeq(s, i, CHOOSE j \in ends : \A k \in ends : j <= k)

\* str.split() with no argument: runs of whitespace separate, no empty words
split(s) ==
    LET starts == WordStarts(s)
    IN  [k \in 1..Cardinality(starts) |->
            WordAt(s, CHOOSE i \in starts :
                         Cardinality({j \in starts : j < i}) = k - 1)]

RECURSIVE SplitOnAcc(_, _, _, _, _)
SplitOnAcc(s, sep, i, start, out) ==
    IF i > Len(s)
    THEN Append(out, SubSeq(s, start, Len(s)))
    ELSE IF SubSeq(s, i, i) = sep
         THEN SplitOnAcc(s, sep, i + 1, i + 1,
                         Append(out, SubSeq(s, start, i - 1)))
         ELSE SplitOnAcc(s, sep, i + 1, start, out)

\* str.split(sep) for a one-character separator: empty fields are kept
split_on(s, sep) == SplitOnAcc(s, sep, 1, 1, <<>>)

RECURSIVE join(_, _)
\* sep.join(words)
join(sep, words) ==
    IF words = <<>> THEN ""
    ELSE IF Len(words) = 1 THEN words[1]
    ELSE words[1] \o sep \o join(sep, Tail(words))

RECURSIVE LStrip(_)
LStrip(s) == IF s # "" /\ IsSpace(Head(s)) THEN LStrip(Tail(s)) ELSE s

RECURSIVE RStrip(_)
RStrip(s) ==
    IF s # "" /\ IsSpace(SubSeq(s, Len(s), Len(s)))
    THEN RStrip(SubSeq(s, 1, Len(s) - 1))
    ELSE s

\* str.strip()
strip(s) == RStrip(LStrip(s))

RECURSIVE IntToStr(_)
\* str(i) / "{n}".format(n=i) for a natural number
IntToStr(i) ==
    IF i < 10 THEN SubSeq(DigitChars, i + 1, i + 1)
    ELSE IntToStr(i \div 10) \o SubSeq(DigitChars, (i % 10) + 1, (i % 10) + 1)

RECURSIVE Repeat(_, _)
\* w * k
Repeat(w, k) ==
    IF k = 0 THEN ""
    ELSE LET h == Repeat(w, k \div 2)
         IN  h \o h \o (IF k % 2 = 1 THEN w ELSE "")

\* s[:k]
Prefix(s, k) == SubSeq(s, 1, Min(k, Len(s)))

(***************************************************************************)
(* qgen_groq.py: configuration tables                                      *)
(***************************************************************************)
MAX_RETRIES == 4

RoleKeys == {"technical", "aptitude", "hr", "beh", "default"}

\* _normalize_role_key(role)
_normalize_role_key(rl) ==
    IF rl = "" THEN "default"
    ELSE LET r == lower(rl)
         IN  IF Contains(r, "tech") \/ Contains(r, "technical") THEN "technical"
             ELSE IF Contains(r, "apt") \/ Contains(r, "aptitude") THEN "aptitude"
             ELSE IF Contains(r, "hr") \/ Contains(r, "human") THEN "hr"
             ELSE IF Contains(r, "beh") \/ Contains(r, "behavior") THEN "beh"
             ELSE "default"

\* ROLE_MATH_RATIO, in hundredths (0.5, 0.05, 0.0, 0.0, 0.4)
ROLE_MATH_RATIO ==
    [k \in RoleKeys |->
        CASE k = "aptitude"  -> 50
          [] k = "technical" -> 5
          [] k = "hr"        -> 0
          [] k = "beh"       -> 0
          [] OTHER           -> 40]

\* ROLE_ALLOWED_TYPES
ROLE_ALLOWED_TYPES ==
    [k \in RoleKeys |->
        CASE k = "aptitude"  -> {"math", "reasoning"}
          [] k = "technical" -> {"reasoning"}
          [] k = "hr"        -> {"reasoning"}
          [] k = "beh"       -> {"reasoning"}
          [] OTHER           -> {"math", "reasoning"}]

\* Python 3 round() of the rational num/den (den > 0): ties go to even
RoundHalfEven(num, den) ==
    LET q == num \div den
        r == num % den
    IN  IF 2 * r < den THEN q
        ELSE IF 2 * r > den THEN q + 1
        ELSE IF q % 2 = 0 THEN q ELSE q + 1

\* math_needed_total = max(0, int(round(n * math_ratio)))
math_needed_total_of(rk, cnt) ==
    Max(0, RoundHalfEven(cnt * ROLE_MATH_RATIO[rk], 100))

(***************************************************************************)
(* qgen_groq.py: text classification and signatures                        *)
(***************************************************************************)
\* hashlib.sha256(...).hexdigest(): a collision-free digest of its argument
Sha256(s) == "sha256:" \o s

\* the signature of the text as it is, letter case kept
signature_case_sensitive(text) == Sha256(join(" ", split(text)))

\* signature_of_text(text)
signature_of_text(text) == Sha256(join(" ", split(lower(text))))

\* _NUMERIC_RE.search(text): the pattern [-+]?\d[\d,]*(?:\.\d+)? matches
\* somewhere exactly when the text has a digit
NumericSearch(text) == \E i \in 1..Len(text) : IsDigit(SubSeq(text, i, i))

math_words ==
    <<"calculate", "compute", "probability", "percent", "ratio", "sum",
      "difference", "distance", "speed", "time", "how many",
      "what is the next number", "series", "expected value", "mean",
      "median", "mode">>

\* _is_math_question_textual(text); the rupee sign is outside the model's
\* alphabet, the other three currency/percent cues are kept
_is_math_question_textual(text) ==
    IF text = "" THEN FALSE
    ELSE LET t == lower(text)
         IN  \/ NumericSearch(t)
             \/ Contains(t, "%") \/ Contains(t, "$") \/ Contains(t, "rupee")
             \/ \E j \in 1..Len(math_words) : Contains(t, math_words[j])

(***************************************************************************)
(* JSON values of a service response                                       *)
(***************************************************************************)
JStr(x)   == [k |-> "str",    s |-> x,  i |-> 0, l |-> <<>>]
JNum(x)   == [k |-> "num",    s |-> "", i |-> x, l |-> <<>>]
JList(x)  == [k |-> "list",   s |-> "", i |-> 0, l |-> x]
JNull     == [k |-> "null",   s |-> "", i |-> 0, l |-> <<>>]
\* the key is missing from the object
JAbsent   == [k |-> "absent", s |-> "", i |-> 0, l |-> <<>>]

\* Python truthiness of a JSON value
Truthy(j) ==
    CASE j.k = "str"  -> j.s # ""
      [] j.k = "num"  -> j.i # 0
      [] j.k = "list" -> j.l # <<>>
      [] OTHER        -> FALSE

\* a JSON object with the four keys the generator reads
JObj(text, keywords, diff, type) ==
    [dict |-> TRUE, text |-> text, keywords |-> keywords,
     difficulty |-> diff, type |-> type]

\* an array element that is not an object
JNotDict == [dict |-> FALSE, text |-> JAbsent, keywords |-> JAbsent,
             difficulty |-> JAbsent, type |-> JAbsent]

\* a question dict of the generator
QDict(text, keywords, diff, type) ==
    [text |-> text, keywords |-> keywords, difficulty |-> diff,
     type |-> type]

NoQ == QDict("", "", 0, "")

AllDigits(s) == s # "" /\ \A i \in 1..Len(s) : IsDigit(SubSeq(s, i, i))

RECURSIVE StrToInt(_)
StrToInt(s) ==
    IF s = "" THEN 0
    ELSE 10 * StrToInt(SubSeq(s, 1, Len(s) - 1))
         + (IndexOf(SubSeq(s, Len(s), Len(s)), DigitChars) - 1)

\* difficulty = max(1, min(5, int(difficulty))), 3 when int() raises
\* (int() of a string is modelled for plain decimal numerals)
CoerceDifficulty(j) ==
    CASE j.k = "absent" -> 3
      [] j.k = "num"    -> Max(1, Min(5, j.i))
      [] j.k = "str"    -> IF AllDigits(strip(j.s))
                           THEN Max(1, Min(5, StrToInt(strip(j.s))))
                           ELSE 3
      [] OTHER          -> 3

RECURSIVE StripTruthy(_)
StripTruthy(xs) ==
    IF xs = <<>> THEN <<>>
    ELSE IF xs[1] = "" THEN StripTruthy(Tail(xs))
    ELSE <<strip(xs[1])>> \o StripTruthy(Tail(xs))

\* keywords normalisation of _validate_question_obj
CoerceKeywords(j) ==
    CASE j.k = "list"   -> join(",", StripTruthy(j.l))
      [] j.k = "str"    -> strip(j.s)
      [] j.k = "num"    -> IntToStr(j.i)
      [] j.k = "null"   -> "None"
      [] OTHER          -> ""

\* qtype = obj.get("type", "").lower() if obj.get("type") else ""
DeclaredType(obj) == IF Truthy(obj.type) THEN lower(obj.type.s) ELSE ""

\* the type had to be inferred from the text (line 223)
TypeInferred(obj) == DeclaredType(obj) \notin {"math", "reasoning"}

\* _validate_question_obj(obj): st = "ok" with the normalised dict q,
\* "none" when the object is rejected, "raise" when .lower() is applied to a
\* truthy type that is not a string (AttributeError)
_validate_question_obj(obj) ==
    IF ~obj.dict THEN [st |-> "none", q |-> NoQ]
    ELSE IF Truthy(obj.type) /\ obj.type.k # "str"
         THEN [st |-> "raise", q |-> NoQ]
    ELSE IF ~Truthy(obj.text) \/ obj.text.k # "str"
         THEN [st |-> "none", q |-> NoQ]
    ELSE LET qtype == DeclaredType(obj)
         IN  [st |-> "ok",
              q  |-> QDict(strip(obj.text.s),
                           CoerceKeywords(obj.keywords),
                           CoerceDifficulty(obj.difficulty),
                           IF qtype \notin {"math", "reasoning"}
                           THEN IF _is_math_question_textual(obj.text.s)
                                THEN "math" ELSE "reasoning"
                           ELSE qtype)]

enrich == " For example: If 10 items cost 25, how much for 4?"

\* _ensure_math_has_number(qobj)
_ensure_math_has_number(qobj) ==
    LET text == strip(qobj.text)
    IN  IF lower(qobj.type) = "math" /\ ~NumericSearch(text)
        THEN [qobj EXCEPT !.text = Prefix(text \o enrich, 1000),
                          !.keywords = IF qobj.keywords # ""
                                       THEN qobj.keywords \o ",numbers"
                                       ELSE "numbers"]
        ELSE qobj

\* _is_math_question(qobj)
_is_math_question(qobj) ==
    qobj.type = "math" \/ _is_math_question_textual(qobj.text)

(***************************************************************************)
(* views_helpers.py: the template stub                                     *)
(***************************************************************************)
tech_terms ==
    <<"process", "thread", "database indexing", "REST API", "authentication",
      "caching", "load balancing", "microservices", "HTTP protocol",
      "Docker container">>

scenarios ==
    <<"a production outage", "a conflicting requirement", "a tight deadline",
      "scaling the system to 10x", "optimizing slow database queries",
      "managing teamwork conflicts", "debugging a critical bug",
      "handling unexpected edge cases">>

TemplateKeys == {"tech", "hr", "apt", "beh"}

\* templates[role_key][tpl].format(a=a, b=b, scenario=scenario, n=n, m=m)
\* (the ellipsis character of the fourth aptitude template is written "...")
FormatTemplate(key, tpl, a, b, scenario, nn, mm) ==
    CASE key = "tech" ->
           (CASE tpl = 1 -> "Explain how " \o a \o " works and give an example."
              [] tpl = 2 -> "Describe the difference between " \o a \o " and "
                            \o b \o " with a real-life example."
              [] tpl = 3 -> "How would you troubleshoot issues related to "
                            \o a \o "?"
              [] tpl = 4 -> "Design a small system using " \o a
                            \o " and explain the flow."
              [] OTHER   -> "What are common mistakes developers make with "
                            \o a \o "?")
      [] key = "hr" ->
           (CASE tpl = 1 -> "Tell me about a time you handled " \o scenario
                            \o "."
              [] tpl = 2 -> "Describe your strengths and weaknesses in a real situation."
              [] tpl = 3 -> "How do you deal with conflicts inside a team?"
              [] tpl = 4 -> "Why do you think you are a good fit for this role?"
              [] OTHER   -> "Describe your biggest achievement and how you reached it.")
      [] key = "apt" ->
           (CASE tpl = 1 -> "If " \o IntToStr(nn) \o " people share "
                            \o IntToStr(mm)
                            \o " items, how many items per person? Explain reasoning."
              [] tpl = 2 -> "Solve a real-life problem using ratios or percentages."
              [] tpl = 3 -> "Explain how to break a complex problem into smaller steps."
              [] tpl = 4 -> "Given a series: 2, 6, 18... find the next term and justify."
              [] OTHER   -> "How do you approach solving optimization problems?")
      [] OTHER ->
           (CASE tpl = 1 -> "Tell me about a time you had to make a quick decision under pressure."
              [] tpl = 2 -> "Describe a failure you experienced and what you learned."
              [] tpl = 3 -> "How do you motivate yourself during repetitive tasks?"
              [] tpl = 4 -> "Explain a situation where you took leadership voluntarily."
              [] OTHER   -> "Describe how you handle criticism or negative feedback.")

\* number of templates of every category
NumTemplates == 5

\* generate_question_stub(role, difficulty) for one outcome of its random
\* choices: template tpl, terms a # b, scenario, integers n and m
generate_question_stub(rl, diff, tpl, a, b, scenario, nn, mm) ==
    LET tkey == IF rl \in TemplateKeys THEN rl ELSE "tech"
        text == strip(FormatTemplate(tkey, tpl, a, b, scenario, nn, mm))
        keywords == <<lower(a), lower(b), lower(split(scenario)[1]), "explain">>
    IN  [text |-> text, keywords |-> join(",", keywords),
         difficulty |-> diff]

\* the outcomes of random.choice and random.randint the model ranges over:
\* one term a and one other term b, a scenario without and one with a
\* digit, the smallest n and the smallest m
DrawA == {1}
DrawB == {2}
DrawScenarios == {1, 4}
DrawN == {2}
DrawM == {5}

RandomDraws ==
    { d \in [tpl : 1..NumTemplates, ia : DrawA, ib : DrawB,
             is : DrawScenarios, n : DrawN, m : DrawM] : d.ia # d.ib }

\* the difficulty arguments the model passes (start_session passes 3)
Difficulties == {3}

\* the stubs generate_question_stub can return under those draws
StubDraws(rl, diff) ==
    { generate_question_stub(rl, diff, d.tpl, tech_terms[d.ia],
                             tech_terms[d.ib], scenarios[d.is], d.n, d.m) :
        d \in RandomDraws }

\* StubDraws tabulated once for the role keys and difficulties in use
StubsByRole == [rk \in RoleKeys, d \in Difficulties |-> StubDraws(rk, d)]

AllStubs == UNION {StubsByRole[rk, d] : rk \in RoleKeys, d \in Difficulties}

(***************************************************************************)
(* Inputs of the generator                                                 *)
(***************************************************************************)
\* views.py ROLE_MAP values (what start_session passes) and one role of no
\* known category
Roles == {"Technical", "Human Resources", "Aptitude", "Behavioral", "General"}

\* the elements a parsed service array is built from: a reasoning item, the
\* same text in another case and spacing with no type, a declared math item
\* without a digit, a declared reasoning item with a digit, an item with an
\* empty text, an item whose text is blank, an item whose type is a number,
\* and an element that is not an object
ServiceObjs ==
    { JObj(JStr("Describe a project"), JStr("design"), JNum(3), JStr("reasoning")),
      JObj(JStr("describe  A project "), JList(<<"fit">>), JStr("4"), JAbsent),
      JObj(JStr("Find the area"), JStr("geometry"), JNum(2), JStr("Math")),
      JObj(JStr("Solve 2 plus 2"), JNull, JNum(9), JStr("reasoning")),
      JObj(JStr(""), JAbsent, JAbsent, JStr("reasoning")),
      JObj(JStr("  "), JAbsent, JAbsent, JStr("reasoning")),
      JObj(JStr("Explain x"), JAbsent, JAbsent, JNum(5)),
      JNotDict }

\* the arrays _extract_json_array_from_text can return
ParsedArrays == UNION { [1..k -> ServiceObjs] : k \in 0..MaxBatch }

\* a question dict together with two history fields: where the item came
\* from and whether its type was inferred from the text
Tag(q, origin, inferred) ==
    [text |-> q.text, keywords |-> q.keywords, difficulty |-> q.difficulty,
     type |-> q.type, origin |-> origin, inferred |-> inferred]

\* _normalize_role_key tabulated once for the roles in use
RoleKeyTable == [r \in Roles |-> _normalize_role_key(r)]

\* line 305
role_key == RoleKeyTable[role]

math_needed_total == math_needed_total_of(role_key, n)

\* max_attempts = max(3, n * 3)
max_attempts == Max(3, n * 3)

(***************************************************************************)
(* generate_questions_groq: the main loop                                  *)
(***************************************************************************)
NoItem == Tag(NoQ, "", FALSE)

\* lines 338-342 for one element of the array: validate, enrich, sign
MainItemOf(obj) ==
    LET r == _validate_question_obj(obj)
    IN  IF r.st # "ok"
        THEN [st |-> r.st, v |-> NoItem, sig |-> ""]
        ELSE LET v == _ensure_math_has_number(
                          Tag(r.q, "llm", TypeInferred(obj)))
             IN  [st |-> "ok", v |-> v, sig |-> signature_of_text(v.text)]

\* MainItemOf tabulated once for the elements the service can send
MainItemTable == [o \in ServiceObjs |-> MainItemOf(o)]

RECURSIVE MainItems(_, _, _, _)
\* lines 337-350: the for loop over the parsed array
MainItems(parsed, coll, seen, mc) ==
    IF parsed = <<>>
    THEN [collected |-> coll, seen_sigs |-> seen, math_count |-> mc,
          raised |-> FALSE]
    ELSE LET p == MainItemTable[parsed[1]]
         IN  IF p.st = "raise"
             THEN [collected |-> coll, seen_sigs |-> seen, math_count |-> mc,
                   raised |-> TRUE]
             ELSE IF p.st = "none" \/ p.sig \in seen
             THEN MainItems(Tail(parsed), coll, seen, mc)
             ELSE LET coll2 == Append(coll, p.v)
                      seen2 == seen \cup {p.sig}
                      mc2   == IF p.v.type = "math" THEN mc + 1 ELSE mc
                  IN  IF Len(coll2) >= n
                      THEN [collected |-> coll2, seen_sigs |-> seen2,
                            math_count |-> mc2, raised |-> FALSE]
                      ELSE MainItems(Tail(parsed), coll2, seen2, mc2)

RECURSIVE SwapFilter(_, _, _)
\* lines 357-361: drop the first to_remove items that are not math
SwapFilter(coll, removed, to_remove) ==
    IF coll = <<>> THEN <<>>
    ELSE IF coll[1].type # "math" /\ removed < to_remove
    THEN SwapFilter(Tail(coll), removed + 1, to_remove)
    ELSE <<coll[1]>> \o SwapFilter(Tail(coll), removed, to_remove)

CountMath(coll) == Cardinality({i \in 1..Len(coll) : coll[i].type = "math"})

SigsOf(coll) == {signature_of_text(coll[i].text) : i \in 1..Len(coll)}

\* variant: the swap leaves seen_sigs as it was
MathSwapKeepsSigs(st) ==
    IF Len(st.collected) >= n /\ st.math_count < math_needed_total
    THEN LET filtered == SwapFilter(st.collected, 0,
                                    math_needed_total - st.math_count)
         IN  [collected |-> filtered, seen_sigs |-> st.seen_sigs,
              math_count |-> CountMath(filtered), raised |-> FALSE]
    ELSE st

\* lines 353-364: the math swap after a batch
MathSwap(st) ==
    IF Len(st.collected) >= n /\ st.math_count < math_needed_total
    THEN LET filtered == SwapFilter(st.collected, 0,
                                    math_needed_total - st.math_count)
         IN  [collected |-> filtered, seen_sigs |-> SigsOf(filtered),
              math_count |-> CountMath(filtered), raised |-> FALSE]
    ELSE st

MainLoopCond == Len(collected) < n /\ attempts < max_attempts

\* lines 82-86 of _build_prompt: the MIX RULE line of the prompt, and the
\* item count the prompt asks for (role and difficulty are copied into the
\* text and do not change the rule)
_build_prompt(cnt, math_needed) ==
    [n |-> cnt,
     math_clause |-> IF math_needed > 0
                     THEN [zero |-> FALSE, exactly |-> math_needed]
                     ELSE [zero |-> TRUE, exactly |-> 0]]

\* lines 317-320
math_for_this_call ==
    Min(n - Len(collected), Max(0, math_needed_total - math_count))

\* line 323: the prompt of a main-loop iteration
MainPrompt == _build_prompt(n - Len(collected), math_for_this_call)

\* variant: a replacement call asks for n items
ReplPromptWholeCount == _build_prompt(n, 0)

\* line 278: the prompt of a replacement call
ReplPrompt == _build_prompt(removed_slots, 0)

\* the client's exception leaves generate_questions_groq uncaught
MainClientFailsRaises ==
    /\ pc = "main" /\ MainLoopCond
    /\ attempts' = attempts + 1
    /\ pc' = "raised"
    /\ UNCHANGED <<role, n, difficulty, api_key_set, dev_force_create,
                   collected, seen_sigs, math_count, kept, removed_slots,
                   r_attempts, r_max_attempts, final, missing, result>>
    /\ UNCHANGED got_response
    /\ prompts' = prompts \cup {MainPrompt}
    /\ last_call' = "raised"
    /\ UNCHANGED score_vars
    /\ UNCHANGED aux_vars

\* variant: the loop goes on after the client's exception
MainClientFailsContinues ==
    /\ pc = "main" /\ MainLoopCond
    /\ attempts' = attempts + 1
    /\ UNCHANGED <<pc, role, n, difficulty, api_key_set, dev_force_create,
                   collected, seen_sigs, math_count, kept, removed_slots,
                   r_attempts, r_max_attempts, final, missing, result>>
    /\ UNCHANGED got_response
    /\ prompts' = prompts \cup {MainPrompt}
    /\ last_call' = "raised"
    /\ UNCHANGED score_vars
    /\ UNCHANGED aux_vars

\* lines 325-329: _call_groq_chat raises, the loop is left by break
MainClientFails ==
    /\ pc = "main" /\ MainLoopCond
    /\ attempts' = attempts + 1
    /\ pc' = "enforce"
    /\ UNCHANGED <<role, n, difficulty, api_key_set, dev_force_create,
                   collected, seen_sigs, math_count, kept, removed_slots,
                   r_attempts, r_max_attempts, final, missing, result>>
    /\ UNCHANGED got_response
    /\ prompts' = prompts \cup {MainPrompt}
    /\ last_call' = "raised"
    /\ UNCHANGED score_vars
    /\ UNCHANGED aux_vars

\* variant: continue without counting the attempt
MainParseFailsUncounted ==
    /\ pc = "main" /\ MainLoopCond
    /\ api_key_set
    /\ got_response' = TRUE
    /\ UNCHANGED <<pc, role, n, difficulty, api_key_set, dev_force_create,
                   collected, seen_sigs, math_count, kept, removed_slots,
                   r_attempts, r_max_attempts, final, missing, result>>
    /\ UNCHANGED attempts
    /\ prompts' = prompts \cup {MainPrompt}
    /\ last_call' = "unparsable"
    /\ UNCHANGED score_vars
    /\ UNCHANGED aux_vars

\* variant: a response without a parsable array ends the loop, as a
\* client failure does
MainParseFailsBreaks ==
    /\ pc = "main" /\ MainLoopCond
    /\ api_key_set
    /\ got_response' = TRUE
    /\ attempts' = attempts + 1
    /\ pc' = "enforce"
    /\ UNCHANGED <<role, n, difficulty, api_key_set, dev_force_create,
                   collected, seen_sigs, math_count, kept, removed_slots,
                   r_attempts, r_max_attempts, final, missing, result>>
    /\ prompts' = prompts \cup {MainPrompt}
    /\ last_call' = "unparsable"
    /\ UNCHANGED score_vars
    /\ UNCHANGED aux_vars

\* lines 331-335: _extract_json_array_from_text raises (no bracketed span,
\* lines 186-188; json.loads fails, lines 192-194; not a list, lines
\* 195-196), continue
MainParseFails ==
    /\ pc = "main" /\ MainLoopCond
    /\ api_key_set
    /\ got_response' = TRUE
    /\ attempts' = attempts + 1
    /\ UNCHANGED <<pc, role, n, difficulty, api_key_set, dev_force_create,
                   collected, seen_sigs, math_count, kept, removed_slots,
                   r_attempts, r_max_attempts, final, missing, result>>
    /\ prompts' = prompts \cup {MainPrompt}
    /\ last_call' = "unparsable"
    /\ UNCHANGED score_vars
    /\ UNCHANGED aux_vars

\* lines 316-364: one iteration whose response parses to the array parsed
MainBatch(parsed) ==
    /\ pc = "main" /\ MainLoopCond
    /\ api_key_set
    /\ got_response' = TRUE
    /\ attempts' = attempts + 1
    /\ LET st == MainItems(parsed, collected, seen_sigs, math_count)
       IN  IF st.raised
           THEN /\ pc' = "raised"
                /\ collected' = st.collected
                /\ seen_sigs' = st.seen_sigs
                /\ math_count' = st.math_count
           ELSE LET sw == MathSwap(st)
                IN  /\ pc' = "main"
                    /\ collected' = sw.collected
                    /\ seen_sigs' = sw.seen_sigs
                    /\ math_count' = sw.math_count
    /\ UNCHANGED <<role, n, difficulty, api_key_set, dev_force_create, kept,
                   removed_slots, r_attempts, r_max_attempts, final, missing,
                   result>>
    /\ prompts' = prompts \cup {MainPrompt}
    /\ last_call' = "array"
    /\ UNCHANGED score_vars
    /\ UNCHANGED aux_vars

\* line 315: the loop condition is false
MainExit ==
    /\ pc = "main" /\ ~MainLoopCond
    /\ pc' = "enforce"
    /\ UNCHANGED <<role, n, difficulty, api_key_set, dev_force_create,
                   collected, seen_sigs, attempts, math_count, kept,
                   removed_slots, r_attempts, r_max_attempts, final, missing,
                   result>>
    /\ UNCHANGED got_response
    /\ UNCHANGED prompts
    /\ UNCHANGED last_call
    /\ UNCHANGED score_vars
    /\ UNCHANGED aux_vars

(***************************************************************************)
(* enforce_role_allowed_types                                              *)
(***************************************************************************)
allowed == ROLE_ALLOWED_TYPES[role_key]

\* variant: the filter looks at the declared type only
DisallowedByDeclaredType(q) == q.type = "math" /\ "math" \notin allowed

\* q is removed by the filter of lines 266-270
Disallowed(q) == _is_math_question(q) /\ "math" \notin allowed

RECURSIVE KeepAllowed(_)
KeepAllowed(coll) ==
    IF coll = <<>> THEN <<>>
    ELSE IF Disallowed(coll[1]) THEN KeepAllowed(Tail(coll))
    ELSE <<coll[1]>> \o KeepAllowed(Tail(coll))

\* lines 367-368 and 261-273: final = collected[:n], then the filter of
\* enforce_role_allowed_types up to its while loop
EnforceFilter ==
    /\ pc = "enforce"
    /\ LET arg == SubSeq(collected, 1, Min(n, Len(collected)))
           k   == KeepAllowed(arg)
       IN  /\ final' = arg
           /\ kept' = k
           /\ removed_slots' = Len(arg) - Len(k)
           /\ r_attempts' = 0
           /\ r_max_attempts' = Max(2, (Len(arg) - Len(k)) * 3)
    /\ pc' = "replace"
    /\ UNCHANGED <<role, n, difficulty, api_key_set, dev_force_create,
                   collected, seen_sigs, attempts, math_count, missing,
                   result>>
    /\ UNCHANGED got_response
    /\ UNCHANGED prompts
    /\ UNCHANGED last_call
    /\ UNCHANGED score_vars
    /\ UNCHANGED aux_vars

\* lines 287-293 for one element of a replacement array: validate, test
\* for math, enrich
ReplItemOf(obj) ==
    LET r == _validate_question_obj(obj)
    IN  IF r.st # "ok"
        THEN [st |-> r.st, v |-> NoItem, math |-> FALSE]
        ELSE LET t == Tag(r.q, "replacement", TypeInferred(obj))
             IN  [st |-> "ok", v |-> _ensure_math_has_number(t),
                  math |-> _is_math_question(t)]

\* ReplItemOf tabulated once for the elements the service can send
ReplItemTable == [o \in ServiceObjs |-> ReplItemOf(o)]

RECURSIVE ReplItems(_, _, _)
\* lines 286-297: the for loop over a parsed replacement array
ReplItems(parsed, k, slots) ==
    IF parsed = <<>>
    THEN [kept |-> k, removed_slots |-> slots, raised |-> FALSE]
    ELSE LET p == ReplItemTable[parsed[1]]
         IN  IF p.st = "raise"
             THEN [kept |-> k, removed_slots |-> slots, raised |-> TRUE]
             ELSE IF p.st = "none" \/ (p.math /\ "math" \notin allowed)
             THEN ReplItems(Tail(parsed), k, slots)
             ELSE LET k2 == Append(k, p.v)
                  IN  IF slots - 1 <= 0
                      THEN [kept |-> k2, removed_slots |-> slots - 1,
                            raised |-> FALSE]
                      ELSE ReplItems(Tail(parsed), k2, slots - 1)

ReplLoopCond == removed_slots > 0 /\ r_attempts < r_max_attempts

\* variant: the shortfall is left to the caller, no stub is added
LeaveEnforceNoBackfill(k) ==
    LET f == SubSeq(k, 1, Min(n, Len(k)))
    IN  /\ final' = f
        /\ missing' = 0
        /\ kept' = <<>>
        /\ removed_slots' = 0
        /\ r_attempts' = 0
        /\ r_max_attempts' = 0
        /\ pc' = "backfill"

\* line 299 and lines 368-372: return kept[:n], which ends the frame of
\* enforce_role_allowed_types; final = that list; the number of stubs to add
LeaveEnforce(k) ==
    LET f == SubSeq(k, 1, Min(n, Len(k)))
    IN  /\ final' = f
        /\ missing' = IF Len(f) < n THEN n - Len(f) ELSE 0
        /\ kept' = <<>>
        /\ removed_slots' = 0
        /\ r_attempts' = 0
        /\ r_max_attempts' = 0
        /\ pc' = "backfill"

\* lines 279-284: _call_groq_chat raises in a replacement call, break
ReplClientFails ==
    /\ pc = "replace" /\ ReplLoopCond
    /\ LeaveEnforce(kept)
    /\ UNCHANGED <<role, n, difficulty, api_key_set, dev_force_create,
                   collected, seen_sigs, attempts, math_count, result>>
    /\ UNCHANGED got_response
    /\ prompts' = prompts \cup {ReplPrompt}
    /\ last_call' = "raised"
    /\ UNCHANGED score_vars
    /\ UNCHANGED aux_vars

\* lines 279-284: the replacement response has no parsable array, break
ReplParseFails ==
    /\ pc = "replace" /\ ReplLoopCond
    /\ api_key_set
    /\ got_response' = TRUE
    /\ LeaveEnforce(kept)
    /\ UNCHANGED <<role, n, difficulty, api_key_set, dev_force_create,
                   collected, seen_sigs, attempts, math_count, result>>
    /\ prompts' = prompts \cup {ReplPrompt}
    /\ last_call' = "unparsable"
    /\ UNCHANGED score_vars
    /\ UNCHANGED aux_vars

\* lines 275-297: one replacement iteration whose response parses
ReplBatch(parsed) ==
    /\ pc = "replace" /\ ReplLoopCond
    /\ api_key_set
    /\ got_response' = TRUE
    /\ r_attempts' = r_attempts + 1
    /\ LET st == ReplItems(parsed, kept, removed_slots)
       IN  /\ kept' = st.kept
           /\ removed_slots' = st.removed_slots
           /\ pc' = IF st.raised THEN "raised" ELSE "replace"
    /\ UNCHANGED <<role, n, difficulty, api_key_set, dev_force_create,
                   collected, seen_sigs, attempts, math_count,
                   r_max_attempts, final, missing, result>>
    /\ prompts' = prompts \cup {ReplPrompt}
    /\ last_call' = "array"
    /\ UNCHANGED score_vars
    /\ UNCHANGED aux_vars

\* line 275: the replacement loop condition is false
ReplExit ==
    /\ pc = "replace" /\ ~ReplLoopCond
    /\ LeaveEnforce(kept)
    /\ UNCHANGED <<role, n, difficulty, api_key_set, dev_force_create,
                   collected, seen_sigs, attempts, math_count, result>>
    /\ UNCHANGED got_response
    /\ UNCHANGED prompts
    /\ UNCHANGED last_call
    /\ UNCHANGED score_vars
    /\ UNCHANGED aux_vars

(***************************************************************************)
(* generate_questions_groq: stub backfill and return                       *)
(***************************************************************************)
\* lines 377-390 for one stub: dup says that its signature is in seen_sigs
\* and DEV_FORCE_CREATE is off; the signature added and the item appended
BackfillItemOf(stub, dup) ==
    LET text == IF dup THEN stub.text \o " (variant)" ELSE stub.text
    IN  [sig  |-> signature_of_text(text),
         item |-> Tag(QDict(strip(text), stub.keywords, stub.difficulty,
                            IF _is_math_question_textual(text)
                            THEN "math" ELSE "reasoning"),
                      "stub", TRUE)]

\* BackfillItemOf tabulated once for the stubs that can be drawn
BackfillTable == [st \in AllStubs, dup \in BOOLEAN |-> BackfillItemOf(st, dup)]

\* variant: the stub is put in front of the list
BackfillStubInFront ==
    /\ pc = "backfill" /\ missing > 0
    /\ \E stub \in StubsByRole[role_key, difficulty] :
         LET dup == BackfillTable[stub, FALSE].sig \in seen_sigs
                    /\ ~dev_force_create
             b   == BackfillTable[stub, dup]
         IN  /\ seen_sigs' = seen_sigs \cup {b.sig}
             /\ final' = <<b.item>> \o final
    /\ missing' = missing - 1
    /\ UNCHANGED <<pc, role, n, difficulty, api_key_set, dev_force_create,
                   collected, attempts, math_count, kept, removed_slots,
                   r_attempts, r_max_attempts, result>>
    /\ UNCHANGED got_response
    /\ UNCHANGED prompts
    /\ UNCHANGED last_call
    /\ UNCHANGED score_vars
    /\ UNCHANGED aux_vars

\* lines 375-390: one iteration of the stub loop, for any stub that
\* generate_question_stub(role_key, difficulty) can draw
BackfillStub ==
    /\ pc = "backfill" /\ missing > 0
    /\ \E stub \in StubsByRole[role_key, difficulty] :
         LET dup == BackfillTable[stub, FALSE].sig \in seen_sigs
                    /\ ~dev_force_create
             b   == BackfillTable[stub, dup]
         IN  /\ seen_sigs' = seen_sigs \cup {b.sig}
             /\ final' = Append(final, b.item)
    /\ missing' = missing - 1
    /\ UNCHANGED <<pc, role, n, difficulty, api_key_set, dev_force_create,
                   collected, attempts, math_count, kept, removed_slots,
                   r_attempts, r_max_attempts, result>>
    /\ UNCHANGED got_response
    /\ UNCHANGED prompts
    /\ UNCHANGED last_call
    /\ UNCHANGED score_vars
    /\ UNCHANGED aux_vars

\* line 393: return final[:n]
Return ==
    /\ pc = "backfill" /\ missing = 0
    /\ result' = SubSeq(final, 1, Min(n, Len(final)))
    /\ pc' = "done"
    /\ UNCHANGED <<role, n, difficulty, api_key_set, dev_force_create,
                   collected, seen_sigs, attempts, math_count, kept,
                   removed_slots, r_attempts, r_max_attempts, final, missing>>
    /\ UNCHANGED got_response
    /\ UNCHANGED prompts
    /\ UNCHANGED last_call
    /\ UNCHANGED score_vars
    /\ UNCHANGED aux_vars

(***************************************************************************)
(* nlp_utils.py: analyze_transcript                                        *)
(***************************************************************************)
FILLERS == {"um", "uh", "like", "you know", "hmm"}

\* an optional string: Python None or a str
NoneStr == [none |-> TRUE, s |-> ""]
SomeStr(x) == [none |-> FALSE, s |-> x]

\* a GeneratedQuestion row (the fields the scorer reads) or None
NoQuestion == [none |-> TRUE, text |-> "", keywords |-> ""]
Question(text, keywords) == [none |-> FALSE, text |-> text, keywords |-> keywords]

\* lines 56-64: the result of the no-answer path
NoAnswerResult ==
    [score |-> 0,
     feedback |-> "You did not provide an answer to this question.",
     improvement_tips |-> <<"Answer the question in your own words",
                            "Explain the main idea clearly",
                            "Add an example to support your explanation">>]

\* tokens = [t.text.lower() for t in nlp(text)]: on texts of letters and
\* blanks spaCy's non-space tokens are the whitespace-separated words
nlp_tokens(text) ==
    LET words == split(text)
    IN  [i \in 1..Len(words) |-> lower(words[i])]

\* fillers = sum(1 for t in tokens if t in FILLERS)
fillers_of(text) ==
    LET tokens == nlp_tokens(text)
    IN  Cardinality({i \in 1..Len(tokens) : tokens[i] \in FILLERS})

RECURSIVE StripLowerNonEmpty(_)
StripLowerNonEmpty(ks) ==
    IF ks = <<>> THEN <<>>
    ELSE IF strip(ks[1]) = "" THEN StripLowerNonEmpty(Tail(ks))
    ELSE <<lower(strip(ks[1]))>> \o StripLowerNonEmpty(Tail(ks))

\* lines 71-74: the keyword list of the question
keywords_of(question) ==
    IF ~question.none /\ question.keywords # ""
    THEN StripLowerNonEmpty(split_on(question.keywords, ","))
    ELSE <<>>

\* line 75: matched = sum(1 for k in keywords if k in text.lower())
matched_of(text, keywords) ==
    Cardinality({i \in 1..Len(keywords) : Contains(lower(text), keywords[i])})

\* keyword_score without the division by the number of keywords
keyword_score_undivided(matched, nkeywords) ==
    IF nkeywords # 0 THEN matched * 40 ELSE 20

\* keyword_score rounded to the nearest integer instead of truncated
keyword_score_rounded(matched, nkeywords) ==
    IF nkeywords # 0 THEN RoundHalfEven(matched * 40, Max(1, nkeywords)) ELSE 20

\* keyword_score computed from the keywords that were not matched
keyword_score_missed(matched, nkeywords) ==
    IF nkeywords # 0
    THEN ((nkeywords - matched) * 40) \div Max(1, nkeywords)
    ELSE 20

\* line 78: int((matched / max(1, len(keywords))) * 40) if keywords else 20;
\* int() truncates, and for 0 <= matched <= len the float product truncates
\* to the integer quotient
keyword_score_of(matched, nkeywords) ==
    IF nkeywords # 0 THEN (matched * 40) \div Max(1, nkeywords) ELSE 20

\* length_score without the upper limit of 20
length_score_unbounded(word_count) == Max(5, word_count)

\* line 79
length_score_of(word_count) == Min(20, Max(5, word_count))

\* grammar_score without the limit of 10 on the deduction
grammar_score_unlimited(fillers) == 25 - fillers * 2

\* line 80
grammar_score_of(fillers) == 25 - Min(10, fillers * 2)

\* line 81
filler_penalty_of(fillers) == Min(15, fillers * 3)

\* line 82
total_of(keyword_score, length_score, grammar_score, filler_penalty) ==
    Max(0, keyword_score + length_score + grammar_score - filler_penalty)

\* lines 66-85: the locals of the scoring block
ScoreLocals(text, question) ==
    LET keywords == keywords_of(question)
        matched  == IF keywords # <<>> THEN matched_of(text, keywords) ELSE 0
        fillers  == fillers_of(text)
        wc       == Len(split(text))
        ks       == keyword_score_of(matched, Len(keywords))
        ls       == length_score_of(wc)
        gs       == grammar_score_of(fillers)
        fp       == filler_penalty_of(fillers)
    IN  [keywords |-> keywords, matched |-> matched, fillers |-> fillers,
         word_count |-> wc, keyword_score |-> ks, length_score |-> ls,
         grammar_score |-> gs, filler_penalty |-> fp,
         total |-> total_of(ks, ls, gs, fp)]

NoLocals ==
    [keywords |-> <<>>, matched |-> 0, fillers |-> 0, word_count |-> 0,
     keyword_score |-> 0, length_score |-> 0, grammar_score |-> 0,
     filler_penalty |-> 0, total |-> 0]

\* lines 84-115: the feedback sentences joined with blanks
feedback_of(L) ==
    join(" ",
         <<IF L.word_count < 12
           THEN "Your answer is very short and does not fully explain the concept."
           ELSE IF L.word_count < 25
           THEN "Your answer explains the idea briefly, but it needs more depth."
           ELSE "You have explained the concept reasonably well.">>
         \o (IF L.keywords # <<>> /\ L.matched = 0
             THEN <<"Important points related to the question are missing.">>
             ELSE IF L.keywords # <<>> /\ L.matched < Len(L.keywords)
             THEN <<"Some important aspects of the topic are missing from your explanation.">>
             ELSE <<>>)
         \o (IF L.fillers > 0
             THEN <<"Try to reduce filler words to make your answer clearer and more confident.">>
             ELSE <<>>))

\* lines 117-123 (the dash of the first tip is written "-")
rule_tips_of(L) ==
    (IF L.word_count < 25
     THEN <<"Explain the concept in 2-3 clear sentences">> ELSE <<>>)
    \o (IF L.keywords # <<>> /\ L.matched < Len(L.keywords)
        THEN <<"Include definition, purpose, and usage">> ELSE <<>>)
    \o <<"Add a simple real-world or technical example">>

\* what the client call of generate_ai_improvement_tips can produce: the
\* call raises, the response does not parse, or it parses to a list
NoAi == [kind |-> "none", tips |-> <<>>]

AiOutcomes ==
    {[kind |-> "error", tips |-> <<>>], [kind |-> "noparse", tips |-> <<>>],
     [kind |-> "nonlist", tips |-> <<>>]}
    \cup {[kind |-> "list",
           tips |-> [i \in 1..k |-> "AI tip " \o IntToStr(i)]] : k \in 0..MaxAiTips}

\* the parsed list returned whole, without the [:5]
generate_ai_improvement_tips_uncapped(ai) ==
    IF ai.kind = "list" THEN ai.tips ELSE <<>>

\* generate_ai_improvement_tips(...), lines 42-52
generate_ai_improvement_tips(ai) ==
    IF ai.kind = "list" THEN SubSeq(ai.tips, 1, Min(5, Len(ai.tips))) ELSE <<>>

(***************************************************************************)
(* Inputs of the scorer                                                    *)
(***************************************************************************)
filler_cycle == <<"um", "Uh", "like", "hmm">>
keyword_cycle == <<"API", "rest", "crud">>

\* an answer of f filler words, the first m keyword words and p other words
BuildText(f, m, p) ==
    join(" ", [i \in 1..f |-> filler_cycle[((i - 1) % Len(filler_cycle)) + 1]]
              \o [i \in 1..m |-> keyword_cycle[((i - 1) % Len(keyword_cycle)) + 1]]
              \o [i \in 1..p |-> "x"])

AnswerTexts ==
    {NoneStr} \cup
    {SomeStr(BuildText(f, m, p)) : f \in 0..MaxFillers, m \in 0..MaxKw, p \in 0..MaxPad}

Questions ==
    {NoQuestion} \cup
    {Question("Explain REST", kw) :
        kw \in {"api,rest,crud", "API, Rest", "rest", "a,b", "", " , "}}

(***************************************************************************)
(* analyze_transcript: one action per way through the function             *)
(***************************************************************************)
\* a test for None only, which lets the empty string through
NotTextNoneOnly(t) == t.none

\* if not text
NotText(t) == t.none \/ t.s = ""

\* lines 55-64: the early return for an empty or absent answer
AnalyzeNoAnswer ==
    /\ a_pc = "call"
    /\ NotText(a_text)
    /\ a_result' = NoAnswerResult
    /\ a_pc' = "done"
    /\ UNCHANGED <<a_text, a_question, a_locals, a_tokenized, a_matched_kw,
                   a_client_calls, a_ai>>
    /\ UNCHANGED gen_vars
    /\ UNCHANGED aux_vars

\* line 66: nlp(text) raises (spaCy rejects a text longer than
\* nlp.max_length); nothing catches it
AnalyzeTokenizerFails ==
    /\ a_pc = "call"
    /\ ~NotText(a_text)
    /\ a_tokenized' = "failed"
    /\ a_pc' = "raised"
    /\ UNCHANGED <<a_text, a_question, a_result, a_locals, a_matched_kw,
                   a_client_calls, a_ai>>
    /\ UNCHANGED gen_vars
    /\ UNCHANGED aux_vars

\* lines 66-123: tokenization, keyword matching, scoring, feedback and the
\* rule-based tips, up to the call of generate_ai_improvement_tips
AnalyzeScore ==
    /\ a_pc = "call"
    /\ ~NotText(a_text)
    /\ a_tokenized' = "ok"
    /\ a_matched_kw' = (~a_question.none /\ a_question.keywords # "")
    /\ LET L == ScoreLocals(a_text.s, a_question)
       IN  /\ a_locals' = L
           /\ a_result' = [score |-> L.total, feedback |-> feedback_of(L),
                           improvement_tips |-> rule_tips_of(L)]
    /\ a_pc' = "tips"
    /\ UNCHANGED <<a_text, a_question, a_client_calls, a_ai>>
    /\ UNCHANGED gen_vars
    /\ UNCHANGED aux_vars

\* lines 125-138: the tips call with outcome ai, and the return
AnalyzeTips(ai) ==
    /\ a_pc = "tips"
    /\ a_client_calls' = a_client_calls + 1
    /\ a_ai' = ai
    /\ LET ai_tips == generate_ai_improvement_tips(ai)
       IN  a_result' = [a_result EXCEPT !.improvement_tips =
                           IF ai_tips # <<>> THEN ai_tips ELSE @]
    /\ a_pc' = "done"
    /\ UNCHANGED <<a_text, a_question, a_locals, a_tokenized, a_matched_kw>>
    /\ UNCHANGED gen_vars
    /\ UNCHANGED aux_vars

(***************************************************************************)
(* qgen_groq.py: generate_session_suggestions                              *)
(***************************************************************************)
\* the scores of the answers of a session (views.py sends 0 for no score)
Scores == {0, 50, 85}

\* the question text of the i-th answer; the first one is 126 characters
\* long, beyond the 120 the fallback keeps
QuestionText(i) ==
    IF i = 1 THEN "Explain " \o Repeat("very ", 22) \o "long one"
    ELSE "Question " \o IntToStr(i)

\* the answers argument as views.py builds it (lines 455-462): one dict per
\* answer, of which the fallback reads question_text and score
AnswerLists ==
    UNION { { [i \in 1..k |-> [question_text |-> QuestionText(i),
                               score |-> sc[i]]] : sc \in [1..k -> Scores] } :
            k \in 0..MaxAnswers }

RECURSIVE InsertSorted(_, _, _)
\* x put into the sorted list behind every element that does not come
\* after it: ascending by score, or descending for reverse=True; equal
\* scores keep their order (sorted() is stable in both directions)
InsertSorted(x, sorted, reverse) ==
    IF sorted = <<>> THEN <<x>>
    ELSE IF (IF reverse THEN Head(sorted).score >= x.score
                        ELSE Head(sorted).score <= x.score)
    THEN <<Head(sorted)>> \o InsertSorted(x, Tail(sorted), reverse)
    ELSE <<x>> \o sorted

RECURSIVE SortAcc(_, _, _)
SortAcc(xs, acc, reverse) ==
    IF xs = <<>> THEN acc
    ELSE SortAcc(Tail(xs), InsertSorted(Head(xs), acc, reverse), reverse)

\* the sort that ignores reverse=True
sorted_by_score_ascending(xs, reverse) == SortAcc(xs, <<>>, FALSE)

\* sorted(answers, key=lambda x: x.get("score", 0), reverse=reverse)
sorted_by_score(xs, reverse) == SortAcc(xs, <<>>, reverse)

\* [a.get("question_text","")[:120] for a in xs[:k]]
TextsOfFirst(xs, k) ==
    [i \in 1..Min(k, Len(xs)) |-> Prefix(xs[i].question_text, 120)]

\* lines 441-454: the dict of the except branch
SuggFallback(ans) ==
    [strengths    |-> JList(TextsOfFirst(sorted_by_score(ans, TRUE), 3)),
     improvements |-> JList(TextsOfFirst(sorted_by_score(ans, FALSE), 5)),
     overall_tip  |-> JStr("Practice weaker areas identified above; do timed mock interviews and focus on concise structure."),
     resources    |-> JList(<<"LeetCode", "Cracking the Coding Interview",
                              "Grokking the System Design Interview">>)]

\* parsed.get(key, default)
DictGet(value, default) == IF value.k = "absent" THEN default ELSE value

\* lines 433-438: the dict built from the parsed object
SuggFromParsed(parsed) ==
    [strengths    |-> DictGet(parsed.strengths, JList(<<>>)),
     improvements |-> DictGet(parsed.improvements, JList(<<>>)),
     overall_tip  |-> DictGet(parsed.overall_tip, JStr("")),
     resources    |-> DictGet(parsed.resources, JList(<<>>))]

\* a JSON object of the service with k items in each of its three lists
SuggObject(k) ==
    [strengths    |-> JList([i \in 1..k |-> "strength " \o IntToStr(i)]),
     improvements |-> JList([i \in 1..k |-> "step " \o IntToStr(i)]),
     overall_tip  |-> JStr("Keep practising."),
     resources    |-> JList([i \in 1..k |-> "book " \o IntToStr(i)])]

SuggKeys == {"strengths", "improvements", "overall_tip", "resources"}

\* the JSON objects json.loads can return for the service's text: the four
\* keys with lists of every length, and objects in which one key is
\* missing or null
SuggObjects ==
    { SuggObject(k) : k \in 0..MaxSugg }
    \cup { [SuggObject(3) EXCEPT ![key] = v] :
             key \in SuggKeys, v \in {JAbsent, JNull} }

NoSuggResponse == [kind |-> "none", obj |-> SuggObject(0)]

NoSuggResult ==
    [strengths |-> JAbsent, improvements |-> JAbsent,
     overall_tip |-> JAbsent, resources |-> JAbsent]

\* lines 424-425 and 439-454: a failure between the client call and
\* json.loads, of the given kind, caught by the except branch
SuggFails(kind) ==
    /\ s_pc = "call"
    /\ s_client_calls' = s_client_calls + 1
    /\ s_response' = [kind |-> kind, obj |-> SuggObject(0)]
    /\ s_result' = SuggFallback(s_answers)
    /\ s_pc' = "done"
    /\ UNCHANGED s_answers
    /\ UNCHANGED <<gen_vars, score_vars, fn_vars, chat_vars, ext_vars>>

\* line 425: _call_groq_chat raises
SuggClientFails == SuggFails("error")

\* lines 427-430: the response has no "{"
SuggNoObject == SuggFails("nobrace")

\* line 432: json.loads raises
SuggBadJson == SuggFails("badjson")

\* lines 425-438: the response parses to the object parsed
SuggParsed(parsed) ==
    /\ s_pc = "call"
    /\ s_client_calls' = s_client_calls + 1
    /\ s_response' = [kind |-> "object", obj |-> parsed]
    /\ s_result' = SuggFromParsed(parsed)
    /\ s_pc' = "done"
    /\ UNCHANGED s_answers
    /\ UNCHANGED <<gen_vars, score_vars, fn_vars, chat_vars, ext_vars>>

(***************************************************************************)
(* qgen_groq.py: one call of _ensure_math_has_number                       *)
(***************************************************************************)
\* question texts: without a digit, with a digit, and digit-free texts of
\* 980 to MaxTextLen characters, around the length from which text + enrich
\* is cut by [:1000] before its first digit
EnrichTexts ==
    {"Find the area", "Solve 2 plus 2", "Explain a process"}
    \cup { Repeat("x", k) : k \in 980..MaxTextLen }

\* validated question dicts, as _validate_question_obj returns them
EnrichItems ==
    { QDict(t, kw, d, ty) :
        t \in EnrichTexts, kw \in {"", "geometry"}, d \in 1..5,
        ty \in {"math", "reasoning"} }

\* v = _ensure_math_has_number(v)
EnsureCall ==
    /\ f_pc = "call"
    /\ f_ret' = _ensure_math_has_number(f_arg)
    /\ f_pc' = "done"
    /\ UNCHANGED f_arg
    /\ UNCHANGED <<gen_vars, score_vars, sugg_vars, chat_vars, ext_vars>>

(***************************************************************************)
(* signature_of_text: qgen_groq.py and its copy in views.py                *)
(***************************************************************************)
\* views.py lines 57-59: " ".join(text.lower().split()), sha256 of its
\* encoding
views_signature_of_text(text) == Sha256(join(" ", split(lower(text))))

RECURSIVE StringsOver(_, _)
\* the strings of exactly k characters over the alphabet
StringsOver(alphabet, k) ==
    IF k = 0 THEN {""}
    ELSE { t \o c : t \in StringsOver(alphabet, k - 1), c \in alphabet }

\* texts of a lower-case letter, an upper-case letter and the blank
SigTexts == UNION { StringsOver({"a", "A", " "}, k) : k \in 0..MaxSigLen }

\* both functions applied to the texts a and b of the argument
SigCall ==
    /\ f_pc = "call"
    /\ f_ret' = [qa |-> signature_of_text(f_arg.a),
                 qb |-> signature_of_text(f_arg.b),
                 va |-> views_signature_of_text(f_arg.a)]
    /\ f_pc' = "done"
    /\ UNCHANGED f_arg
    /\ UNCHANGED <<gen_vars, score_vars, sugg_vars, chat_vars, ext_vars>>

(***************************************************************************)
(* qgen_groq.py: _call_groq_chat                                           *)
(***************************************************************************)
\* HTTP status codes of a response: one 2xx and two others
Statuses == {200, 401, 500}

\* what one attempt can meet.  kind "exception": requests.post raises.
\* kind "response": a response with a status, the raw body text and the
\* shape of the body's JSON: "choices" (choices[0].message.content is
\* field content), "output" (output[0].content[0].text is field content),
\* "malformed" (choices[0] is not an object, so ch.get raises), or "other"
\* (not JSON, or JSON with neither key)
Responses ==
    {[kind |-> "exception", status |-> 0, shape |-> "", text |-> "",
      content |-> ""]}
    \cup { [kind |-> "response", status |-> st, shape |-> sh,
            text |-> "{...}", content |-> c] :
             st \in Statuses, sh \in {"choices", "output"},
             c \in {"", "[{\"text\": \"Q\"}]"} }
    \cup { [kind |-> "response", status |-> st, shape |-> "malformed",
            text |-> "{\"choices\": [\"x\"]}", content |-> ""] :
             st \in Statuses }
    \cup { [kind |-> "response", status |-> st, shape |-> "other",
            text |-> t, content |-> ""] :
             st \in Statuses,
             t \in {"", "{\"error\": {\"message\": \"Invalid API Key\"}}"} }

\* lines 154-174: the content extracted from a response
ContentOf(resp) ==
    IF resp.shape \in {"choices", "output"} THEN resp.content ELSE resp.text

\* the exception that ends the attempt, "" when it returns content:
\* requests.post or the extraction raises, or line 177 raises for an
\* empty content
FailureOf(resp) ==
    IF resp.kind = "exception" THEN "RequestException"
    ELSE IF resp.shape = "malformed" THEN "AttributeError"
    ELSE IF ContentOf(resp) = "" THEN "Empty content returned by Groq"
    ELSE ""

NoExc == [attempt |-> 0, exc |-> ""]

\* lines 121-122: no API key
ChatNoKey ==
    /\ c_pc = "loop" /\ ~c_key
    /\ c_pc' = "raised"
    /\ c_last_exc' = [attempt |-> 0, exc |-> "GROQ_API_KEY not set"]
    /\ UNCHANGED <<c_key, c_attempt, c_outcomes, c_ret>>
    /\ UNCHANGED <<gen_vars, score_vars, sugg_vars, fn_vars, ext_vars>>

\* lines 137-178: one attempt that ends with return content
ChatAttemptReturns(resp) ==
    /\ c_pc = "loop" /\ c_key /\ c_attempt < MAX_RETRIES
    /\ FailureOf(resp) = ""
    /\ c_attempt' = c_attempt + 1
    /\ c_outcomes' = Append(c_outcomes, resp)
    /\ c_ret' = ContentOf(resp)
    /\ c_pc' = "returned"
    /\ UNCHANGED <<c_key, c_last_exc>>
    /\ UNCHANGED <<gen_vars, score_vars, sugg_vars, fn_vars, ext_vars>>

\* variant: last_exc keeps the first failure instead of the last
ChatAttemptFailsKeepsFirst(resp) ==
    /\ c_pc = "loop" /\ c_key /\ c_attempt < MAX_RETRIES
    /\ FailureOf(resp) # ""
    /\ c_attempt' = c_attempt + 1
    /\ c_outcomes' = Append(c_outcomes, resp)
    /\ c_last_exc' = IF c_attempt = 0
                       THEN [attempt |-> 1, exc |-> FailureOf(resp)]
                       ELSE c_last_exc
    /\ UNCHANGED <<c_pc, c_key, c_ret>>
    /\ UNCHANGED <<gen_vars, score_vars, sugg_vars, fn_vars, ext_vars>>

\* lines 137-180: one attempt that ends in the except branch
ChatAttemptFails(resp) ==
    /\ c_pc = "loop" /\ c_key /\ c_attempt < MAX_RETRIES
    /\ FailureOf(resp) # ""
    /\ c_attempt' = c_attempt + 1
    /\ c_outcomes' = Append(c_outcomes, resp)
    /\ c_last_exc' = [attempt |-> c_attempt + 1, exc |-> FailureOf(resp)]
    /\ UNCHANGED <<c_pc, c_key, c_ret>>
    /\ UNCHANGED <<gen_vars, score_vars, sugg_vars, fn_vars, ext_vars>>

\* line 181: the loop is over, raise last_exc
ChatExhausted ==
    /\ c_pc = "loop" /\ c_key /\ c_attempt >= MAX_RETRIES
    /\ c_pc' = "raised"
    /\ UNCHANGED <<c_key, c_attempt, c_outcomes, c_last_exc, c_ret>>
    /\ UNCHANGED <<gen_vars, score_vars, sugg_vars, fn_vars, ext_vars>>

(***************************************************************************)
(* generate_questions_groq: two calls with the same arguments              *)
(***************************************************************************)
Calls == {1, 2}

\* the views that take a session id
SessionOps ==
    {"next_question", "submit_answer", "skip_question", "end_session",
     "session_summary"}

\* lines 309-313: the locals a call starts its main loop with
NewFrame ==
    [pc |-> "main", collected |-> <<>>, seen_sigs |-> {}, attempts |-> 0,
     math_count |-> 0]

NoStep == [call |-> 0, kind |-> "", parsed |-> <<>>]

\* what the service sends in this setting: a reasoning item, the same text
\* in another case and spacing, a declared reasoning item with a digit
TwoObjs ==
    { JObj(JStr("Describe a project"), JStr("design"), JNum(3), JStr("reasoning")),
      JObj(JStr("describe  A project "), JList(<<"fit">>), JStr("4"), JAbsent),
      JObj(JStr("Solve 2 plus 2"), JNull, JNum(9), JStr("reasoning")) }

TwoArrays == UNION { [1..k -> TwoObjs] : k \in 0..MaxBatch }

\* line 315 for one frame
FrameLoopCond(f) == Len(f.collected) < n /\ f.attempts < max_attempts

\* variant: seen_sigs is one set shared by the calls in flight
FrameBatchSharedSigs(f, parsed) ==
    LET shared == UNION {t_frames[c].seen_sigs : c \in Calls}
        st == MainItems(parsed, f.collected, shared, f.math_count)
        sw == IF st.raised THEN st ELSE MathSwap(st)
    IN  [pc |-> IF st.raised THEN "raised" ELSE "main",
         collected |-> sw.collected, seen_sigs |-> sw.seen_sigs,
         attempts |-> f.attempts + 1, math_count |-> sw.math_count]

\* lines 316-364 for one frame and one parsed array
FrameBatch(f, parsed) ==
    LET st == MainItems(parsed, f.collected, f.seen_sigs, f.math_count)
        sw == IF st.raised THEN st ELSE MathSwap(st)
    IN  [pc |-> IF st.raised THEN "raised" ELSE "main",
         collected |-> sw.collected, seen_sigs |-> sw.seen_sigs,
         attempts |-> f.attempts + 1, math_count |-> sw.math_count]

\* lines 325-329 in call c: the client raises, break
TwoClientFails(c) ==
    /\ t_frames # <<>> /\ t_frames[c].pc = "main"
    /\ FrameLoopCond(t_frames[c])
    /\ t_frames' = [t_frames EXCEPT ![c].attempts = @ + 1, ![c].pc = "left"]
    /\ t_last' = [call |-> c, kind |-> "fails", parsed |-> <<>>]
    /\ UNCHANGED <<gen_vars, score_vars, sugg_vars, fn_vars, chat_vars, sess_vars>>

\* lines 331-335 in call c: no parsable array, continue
TwoParseFails(c) ==
    /\ t_frames # <<>> /\ t_frames[c].pc = "main"
    /\ FrameLoopCond(t_frames[c])
    /\ t_frames' = [t_frames EXCEPT ![c].attempts = @ + 1]
    /\ t_last' = [call |-> c, kind |-> "noparse", parsed |-> <<>>]
    /\ UNCHANGED <<gen_vars, score_vars, sugg_vars, fn_vars, chat_vars, sess_vars>>

\* lines 316-364 in call c
TwoBatch(c, parsed) ==
    /\ t_frames # <<>> /\ t_frames[c].pc = "main"
    /\ FrameLoopCond(t_frames[c])
    /\ t_frames' = [t_frames EXCEPT ![c] = FrameBatch(t_frames[c], parsed)]
    /\ t_last' = [call |-> c, kind |-> "batch", parsed |-> parsed]
    /\ UNCHANGED <<gen_vars, score_vars, sugg_vars, fn_vars, chat_vars, sess_vars>>

\* line 315 in call c: the loop condition is false
TwoExit(c) ==
    /\ t_frames # <<>> /\ t_frames[c].pc = "main"
    /\ ~FrameLoopCond(t_frames[c])
    /\ t_frames' = [t_frames EXCEPT ![c].pc = "left"]
    /\ t_last' = [call |-> c, kind |-> "exit", parsed |-> <<>>]
    /\ UNCHANGED <<gen_vars, score_vars, sugg_vars, fn_vars, chat_vars, sess_vars>>

(***************************************************************************)
(* views.py: start_session                                                 *)
(***************************************************************************)
\* forms.py, StartSessionForm.ROLE_CHOICES
FormRoles == {"tech", "hr", "apt", "beh"}

\* views.py lines 40-55.  This def follows the import of the function of
\* the same name from views_helpers, so it is the one start_session calls
views_generate_question_stub(raw_role, d) ==
    LET instruction ==
          IF raw_role = "tech"
          THEN "Explain a core technical concept or solve a coding problem."
          ELSE IF raw_role = "hr"
          THEN "Describe how to handle workplace scenarios or HR policies."
          ELSE IF raw_role = "aptitude"
          THEN "Solve a logical reasoning or quantitative problem."
          ELSE IF raw_role = "behavioral"
          THEN "Discuss how to handle interpersonal or situational challenges."
          ELSE "Provide a general question related to the role."
    IN  [text |-> "(AI stub) " \o raw_role \o " question (difficulty "
                  \o IntToStr(d) \o "): " \o instruction]

\* Answer.score: None, or a number
NoScore == [none |-> TRUE, v |-> 0]

Score(x) == [none |-> FALSE, v |-> x]

\* a GeneratedQuestion row
QRow(sig, raw_role, text, source) ==
    [signature |-> sig, role |-> raw_role, text |-> text, source |-> source]

\* GeneratedQuestion.objects.get_or_create(signature=sig, defaults=...)
\* followed by lines 259-261 (285-287): the row's role becomes raw_role.
\* Gives the table and the id of the row
get_or_create(db, sig, raw_role, text, source) ==
    LET hits == {i \in 1..Len(db) : db[i].signature = sig}
    IN  IF hits = {}
        THEN [db |-> Append(db, QRow(sig, raw_role, text, source)),
              id |-> Len(db) + 1]
        ELSE LET i == CHOOSE j \in hits : \A k \in hits : j <= k
             IN  [db |-> [db EXCEPT ![i].role = raw_role], id |-> i]

RECURSIVE LlmLoop(_, _, _, _, _, _)
\* lines 240-264: the for loop over llm_questions
LlmLoop(items, db, ids, created, raw_role, cnt) ==
    IF items = <<>> \/ created >= cnt
    THEN [db |-> db, ids |-> ids, created |-> created]
    ELSE LET text == strip(items[1].text)
         IN  IF text = ""
             THEN LlmLoop(Tail(items), db, ids, created, raw_role, cnt)
             ELSE LET g == get_or_create(db, views_signature_of_text(text),
                                         raw_role, text, "llm")
                  IN  LlmLoop(Tail(items), g.db, Append(ids, g.id),
                              created + 1, raw_role, cnt)

InIds(ids, id) == \E i \in 1..Len(ids) : ids[i] = id

\* lines 269-273 tabulated once per role: the stub's stripped text and its
\* signature
ViewsStubTable ==
    [r \in FormRoles |->
        LET text == strip(views_generate_question_stub(r, 2).text)
        IN  [text |-> text, sig |-> views_signature_of_text(text)]]

RECURSIVE StubLoop(_, _, _, _, _, _)
\* lines 267-294: the while loop of fallback stubs; tries counts attempts
StubLoop(db, ids, created, tries, raw_role, cnt) ==
    IF ~(created < cnt /\ tries < Max(50, cnt * 10))
    THEN [db |-> db, ids |-> ids, created |-> created]
    ELSE LET text == ViewsStubTable[raw_role].text
         IN  IF text = ""
             THEN StubLoop(db, ids, created, tries + 1, raw_role, cnt)
             ELSE LET g == get_or_create(db, ViewsStubTable[raw_role].sig,
                                         raw_role, text, "template")
                  IN  IF InIds(ids, g.id)
                      THEN StubLoop(g.db, ids, created, tries + 1,
                                    raw_role, cnt)
                      ELSE StubLoop(g.db, Append(ids, g.id), created + 1,
                                    tries + 1, raw_role, cnt)

\* lines 300-307: one Answer placeholder per id, index 1, 2, ...
Placeholders(ids) ==
    [i \in 1..Len(ids) |->
        [question |-> ids[i], index |-> i, processed |-> FALSE,
         answer_text |-> "", score |-> NoScore]]

NoResp == [op |-> "", kind |-> "", answer |-> 0]

\* what generate_questions_groq can hand to start_session: it raises, or
\* it returns cnt items with a non-empty text, where two items can have
\* the same signature (replacements and stubs are not deduplicated)
LlmTexts == {"q a", "Q  a", "q b"}

LlmOutcomes(cnt) ==
    {[raised |-> TRUE, items |-> <<>>]}
    \cup {[raised |-> FALSE, items |-> [i \in 1..cnt |-> [text |-> f[i]]]] :
             f \in [1..cnt -> LlmTexts]}

\* lines 211-310 for a valid POST
StartSession(raw_role, cnt, llm) ==
    /\ v_pc = "start"
    /\ LET l == LlmLoop(llm.items, v_db, <<>>, 0, raw_role, cnt)
           st == StubLoop(l.db, l.ids, l.created, 0, raw_role, cnt)
           m1 == IF llm.raised
                 THEN <<[kind |-> "ai_failed", created |-> 0, n |-> cnt]>>
                 ELSE <<>>
           m2 == IF st.created < cnt
                 THEN <<[kind |-> "only_created", created |-> st.created,
                         n |-> cnt]>>
                 ELSE <<>>
       IN  /\ v_db' = st.db
           /\ v_answers' = Placeholders(st.ids)
           /\ v_started' = Len(st.ids)
           /\ v_messages' = m1 \o m2
    /\ v_role' = raw_role
    /\ v_n' = cnt
    /\ v_current_index' = 0
    /\ v_completed' = FALSE
    /\ v_total_score' = NoScore
    /\ v_pc' = "live"
    /\ v_resp' = [op |-> "start_session", kind |-> "redirect_next",
                  answer |-> 0]
    /\ UNCHANGED <<gen_vars, score_vars, sugg_vars, fn_vars, chat_vars,
                   two_vars>>

\* lines 216-217 and 311-314: a GET, or a POST whose form is not valid,
\* renders the form
StartSessionNoPost ==
    /\ v_pc = "start"
    /\ v_resp' = [op |-> "start_session", kind |-> "form", answer |-> 0]
    /\ UNCHANGED <<v_pc, v_role, v_n, v_db, v_answers, v_current_index,
                   v_completed, v_messages, v_started, v_total_score>>
    /\ UNCHANGED <<gen_vars, score_vars, sugg_vars, fn_vars, chat_vars,
                   two_vars>>

(***************************************************************************)
(* views.py: the requests on a session                                     *)
(***************************************************************************)
\* lines 321-322 and alike: session.user != request.user
Forbidden(op) ==
    /\ v_pc = "live"
    /\ v_resp' = [op |-> op, kind |-> "forbidden", answer |-> 0]
    /\ UNCHANGED <<v_pc, v_role, v_n, v_db, v_answers, v_current_index,
                   v_completed, v_messages, v_started, v_total_score>>
    /\ UNCHANGED <<gen_vars, score_vars, sugg_vars, fn_vars, chat_vars,
                   two_vars>>

\* line 326: session.answers.filter(processed=False)
Unprocessed == {i \in 1..Len(v_answers) : ~v_answers[i].processed}

\* variant: the unprocessed Answer of highest index is presented
NextQuestionHighest ==
    /\ v_pc = "live"
    /\ IF Unprocessed = {}
       THEN /\ v_resp' = [op |-> "next_question",
                          kind |-> "redirect_summary", answer |-> 0]
            /\ UNCHANGED v_current_index
       ELSE \E a \in Unprocessed :
               /\ \A b \in Unprocessed :
                     v_answers[a].index >= v_answers[b].index
               /\ v_current_index' = v_answers[a].index
               /\ v_resp' = [op |-> "next_question", kind |-> "question",
                             answer |-> a]
    /\ UNCHANGED <<v_pc, v_role, v_n, v_db, v_answers, v_completed,
                   v_messages, v_started, v_total_score>>
    /\ UNCHANGED <<gen_vars, score_vars, sugg_vars, fn_vars, chat_vars,
                   two_vars>>

\* lines 319-342
NextQuestion ==
    /\ v_pc = "live"
    /\ IF Unprocessed = {}
       THEN /\ v_resp' = [op |-> "next_question",
                          kind |-> "redirect_summary", answer |-> 0]
            /\ UNCHANGED v_current_index
       ELSE \E a \in Unprocessed :
               /\ \A b \in Unprocessed :
                     v_answers[a].index <= v_answers[b].index
               /\ v_current_index' = v_answers[a].index
               /\ v_resp' = [op |-> "next_question", kind |-> "question",
                             answer |-> a]
    /\ UNCHANGED <<v_pc, v_role, v_n, v_db, v_answers, v_completed,
                   v_messages, v_started, v_total_score>>
    /\ UNCHANGED <<gen_vars, score_vars, sugg_vars, fn_vars, chat_vars,
                   two_vars>>

\* lines 347-348: a request that is not a POST
SubmitAnswerNoPost ==
    /\ v_pc = "live"
    /\ v_resp' = [op |-> "submit_answer", kind |-> "redirect_next",
                  answer |-> 0]
    /\ UNCHANGED <<v_pc, v_role, v_n, v_db, v_answers, v_current_index,
                   v_completed, v_messages, v_started, v_total_score>>
    /\ UNCHANGED <<gen_vars, score_vars, sugg_vars, fn_vars, chat_vars,
                   two_vars>>

\* lines 354-355: answer_id names no Answer of the session
SubmitAnswerNotFound ==
    /\ v_pc = "live"
    /\ v_resp' = [op |-> "submit_answer", kind |-> "not_found",
                  answer |-> 0]
    /\ UNCHANGED <<v_pc, v_role, v_n, v_db, v_answers, v_current_index,
                   v_completed, v_messages, v_started, v_total_score>>
    /\ UNCHANGED <<gen_vars, score_vars, sugg_vars, fn_vars, chat_vars,
                   two_vars>>

\* lines 357-372.  AnswerForm is a forms.Form without fields: it is always
\* valid and cleaned_data has no answer_text, so the text stored is "" and
\* analyze_transcript gives its no-answer result, score 0
SubmitAnswer(answer_id) ==
    /\ v_pc = "live"
    /\ answer_id \in 1..Len(v_answers)
    /\ v_answers' = [v_answers EXCEPT ![answer_id].answer_text = "",
                                      ![answer_id].score = Score(0),
                                      ![answer_id].processed = TRUE]
    /\ v_resp' = [op |-> "submit_answer", kind |-> "redirect_next",
                  answer |-> answer_id]
    /\ UNCHANGED <<v_pc, v_role, v_n, v_db, v_current_index, v_completed,
                   v_messages, v_started, v_total_score>>
    /\ UNCHANGED <<gen_vars, score_vars, sugg_vars, fn_vars, chat_vars,
                   two_vars>>

\* lines 387-388: the questions of the session's role that no Answer of
\* the session references
SkipCandidates ==
    {q \in 1..Len(v_db) :
        /\ v_db[q].role = v_role
        /\ \A i \in 1..Len(v_answers) : v_answers[i].question # q}

\* lines 381-402.  Answer has unique_together (session, index): creating
\* a row whose index is taken raises IntegrityError, and the atomic block
\* undoes the save of current_index
SkipQuestion ==
    /\ v_pc = "live"
    /\ IF SkipCandidates = {}
       THEN /\ v_resp' = [op |-> "skip_question", kind |-> "redirect_next",
                          answer |-> 0]
            /\ UNCHANGED <<v_answers, v_current_index>>
       ELSE LET q == CHOOSE c \in SkipCandidates :
                        \A d \in SkipCandidates : c <= d
                idx == v_current_index + 1
            IN  IF \E i \in 1..Len(v_answers) : v_answers[i].index = idx
                THEN /\ v_resp' = [op |-> "skip_question",
                                   kind |-> "IntegrityError", answer |-> 0]
                     /\ UNCHANGED <<v_answers, v_current_index>>
                ELSE /\ v_current_index' = idx
                     /\ v_answers' = Append(v_answers,
                           [question |-> q, index |-> idx,
                            processed |-> FALSE,
                            answer_text |-> "[Skipped]",
                            score |-> Score(0)])
                     /\ v_resp' = [op |-> "skip_question",
                                   kind |-> "redirect_next",
                                   answer |-> Len(v_answers) + 1]
    /\ UNCHANGED <<v_pc, v_role, v_n, v_db, v_completed, v_messages,
                   v_started, v_total_score>>
    /\ UNCHANGED <<gen_vars, score_vars, sugg_vars, fn_vars, chat_vars,
                   two_vars>>

\* lines 405-416
EndSession ==
    /\ v_pc = "live"
    /\ v_completed' = TRUE
    /\ v_resp' = [op |-> "end_session", kind |-> "redirect_summary",
                  answer |-> 0]
    /\ UNCHANGED <<v_pc, v_role, v_n, v_db, v_answers, v_current_index,
                   v_messages, v_started, v_total_score>>
    /\ UNCHANGED <<gen_vars, score_vars, sugg_vars, fn_vars, chat_vars,
                   two_vars>>

\* lines 427-428: the scores that are not None
ScoresOf(answers) ==
    {i \in 1..Len(answers) : ~answers[i].score.none}

\* lines 421-510: total_score is the average of the scores, which are all
\* 0 here, or None without a score; no row is created or changed
SessionSummary ==
    /\ v_pc = "live"
    /\ v_total_score' = IF ScoresOf(v_answers) = {} THEN NoScore
                        ELSE Score(0)
    /\ v_resp' = [op |-> "session_summary", kind |-> "summary",
                  answer |-> 0]
    /\ UNCHANGED <<v_pc, v_role, v_n, v_db, v_answers, v_current_index,
                   v_completed, v_messages, v_started>>
    /\ UNCHANGED <<gen_vars, score_vars, sugg_vars, fn_vars, chat_vars,
                   two_vars>>

(***************************************************************************)
(* generate_questions_groq: the math swap on its own                       *)
(***************************************************************************)
\* collected items of distinct signatures, as the main loop builds them:
\* three of type reasoning (one of them with a digit) and two of type math
SwapObjs ==
    { JObj(JStr("Describe a project"), JStr("design"), JNum(3), JStr("reasoning")),
      JObj(JStr("Solve 2 plus 2"), JNull, JNum(9), JStr("reasoning")),
      JObj(JStr("Why tests"), JStr("testing"), JNum(2), JStr("reasoning")),
      JObj(JStr("Find the area"), JStr("geometry"), JNum(2), JStr("Math")),
      JObj(JStr("Add 3 and 4"), JStr("sum"), JNum(1), JStr("math")) }

SwapItems == {MainItemOf(o).v : o \in SwapObjs}

\* the lists of k items with pairwise distinct texts
SwapLists(k) ==
    {l \in [1..k -> SwapItems] :
        \A i, j \in 1..k : i # j => l[i].text # l[j].text}

\* the locals of the main loop when the for loop over parsed has ended
SwapState(coll) ==
    [collected |-> coll, seen_sigs |-> SigsOf(coll),
     math_count |-> CountMath(coll), raised |-> FALSE]

\* lines 352-364 applied to the list in f_arg
SwapCall ==
    /\ f_pc = "call"
    /\ f_ret' = MathSwap(SwapState(f_arg))
    /\ f_pc' = "done"
    /\ UNCHANGED f_arg
    /\ UNCHANGED <<gen_vars, score_vars, sugg_vars, chat_vars, ext_vars>>

(***************************************************************************)
(* generate_questions_groq: the math quota over the form's range of n      *)
(***************************************************************************)
\* forms.py line 7: n_questions has max_value=30
n_questions_max_value == 30

RECURSIVE Xs(_)
\* a word of k letters
Xs(k) == IF k = 0 THEN "" ELSE "x" \o Xs(k - 1)

\* the i-th item of a collected list: a declared math item with a numeral
\* or a declared reasoning item, each with a text of its own
QuotaItem(i, is_math) ==
    IF is_math
    THEN Tag(QDict("Add 3 and 4 " \o Xs(i), "", 3, "math"), "llm", FALSE)
    ELSE Tag(QDict("Explain " \o Xs(i), "", 3, "reasoning"), "llm", FALSE)

\* a collected list of len items of which the first m are math
QuotaList(len, m) == [i \in 1..len |-> QuotaItem(i, i <= m)]

\* lines 316-323 of one iteration of the main loop, up to the client call:
\* the prompt is built from the locals and sent
QuotaPrompt ==
    /\ f_pc = "call" /\ MainLoopCond
    /\ attempts' = attempts + 1
    /\ prompts' = prompts \cup {MainPrompt}
    /\ f_pc' = "done"
    /\ UNCHANGED <<f_arg, f_ret>>
    /\ UNCHANGED <<pc, role, n, difficulty, api_key_set, dev_force_create,
                   collected, seen_sigs, math_count, kept, removed_slots,
                   r_attempts, r_max_attempts, final, missing, result,
                   got_response, last_call>>
    /\ UNCHANGED <<score_vars, sugg_vars, chat_vars, ext_vars>>

\* lines 352-364 of an iteration whose for loop has filled the list
QuotaSwap ==
    /\ f_pc = "call" /\ Len(collected) >= n
    /\ f_ret' = MathSwap([collected |-> collected, seen_sigs |-> seen_sigs,
                          math_count |-> math_count, raised |-> FALSE])
    /\ f_pc' = "done"
    /\ UNCHANGED f_arg
    /\ UNCHANGED <<gen_vars, score_vars, sugg_vars, chat_vars, ext_vars>>

(***************************************************************************)
(* Specifications                                                          *)
(***************************************************************************)
NoResult == [score |-> 0 - 1, feedback |-> "", improvement_tips |-> <<>>]

GenIdle ==
    /\ pc = "idle" /\ role = "" /\ n = 0 /\ difficulty = 0
    /\ api_key_set = FALSE /\ dev_force_create = FALSE
    /\ collected = <<>> /\ seen_sigs = {} /\ attempts = 0 /\ math_count = 0
    /\ kept = <<>> /\ removed_slots = 0 /\ r_attempts = 0
    /\ r_max_attempts = 0 /\ final = <<>> /\ missing = 0 /\ result = <<>>
    /\ got_response = FALSE /\ prompts = {} /\ last_call = ""

ScoreIdle ==
    /\ a_pc = "idle" /\ a_text = NoneStr /\ a_question = NoQuestion
    /\ a_result = NoResult /\ a_locals = NoLocals /\ a_tokenized = "no"
    /\ a_matched_kw = FALSE /\ a_client_calls = 0 /\ a_ai = NoAi

SuggIdle ==
    /\ s_pc = "idle" /\ s_answers = <<>> /\ s_response = NoSuggResponse
    /\ s_result = NoSuggResult /\ s_client_calls = 0

FnIdle == f_pc = "idle" /\ f_arg = NoQ /\ f_ret = NoQ

ChatIdle ==
    /\ c_pc = "idle" /\ c_key = FALSE /\ c_attempt = 0 /\ c_outcomes = <<>>
    /\ c_last_exc = NoExc /\ c_ret = ""

TwoIdle == t_frames = <<>> /\ t_last = NoStep

SessIdle ==
    /\ v_pc = "idle" /\ v_role = "" /\ v_n = 0 /\ v_db = <<>>
    /\ v_answers = <<>> /\ v_current_index = 0 /\ v_completed = FALSE
    /\ v_messages = <<>> /\ v_started = 0 /\ v_total_score = NoScore
    /\ v_resp = NoResp

ExtIdle == TwoIdle /\ SessIdle

AuxIdle == SuggIdle /\ FnIdle /\ ChatIdle /\ ExtIdle

\* entry of generate_questions_groq, lines 305-313
Init ==
    /\ pc = "main"
    /\ role \in Roles
    /\ n \in 1..MaxN
    /\ difficulty \in Difficulties
    /\ api_key_set \in BOOLEAN
    /\ dev_force_create \in BOOLEAN
    /\ collected = <<>> /\ seen_sigs = {} /\ attempts = 0 /\ math_count = 0
    /\ kept = <<>> /\ removed_slots = 0 /\ r_attempts = 0
    /\ r_max_attempts = 0 /\ final = <<>> /\ missing = 0 /\ result = <<>>
    /\ got_response = FALSE /\ prompts = {} /\ last_call = ""
    /\ ScoreIdle
    /\ AuxIdle

Next ==
    \/ MainClientFails
    \/ MainParseFails
    \/ \E parsed \in ParsedArrays : MainBatch(parsed)
    \/ MainExit
    \/ EnforceFilter
    \/ ReplClientFails
    \/ ReplParseFails
    \/ \E parsed \in ParsedArrays : ReplBatch(parsed)
    \/ ReplExit
    \/ BackfillStub
    \/ Return

Spec == Init /\ [][Next]_vars

\* entry of analyze_transcript
InitScore ==
    /\ a_pc = "call"
    /\ a_text \in AnswerTexts
    /\ a_question \in Questions
    /\ a_result = NoResult /\ a_locals = NoLocals /\ a_tokenized = "no"
    /\ a_matched_kw = FALSE /\ a_client_calls = 0 /\ a_ai = NoAi
    /\ GenIdle
    /\ AuxIdle

NextScore ==
    \/ AnalyzeNoAnswer
    \/ AnalyzeTokenizerFails
    \/ AnalyzeScore
    \/ \E ai \in AiOutcomes : AnalyzeTips(ai)

SpecScore == InitScore /\ [][NextScore]_vars

\* entry of generate_session_suggestions
InitSugg ==
    /\ s_pc = "call"
    /\ s_answers \in AnswerLists
    /\ s_response = NoSuggResponse
    /\ s_result = NoSuggResult
    /\ s_client_calls = 0
    /\ GenIdle
    /\ ScoreIdle
    /\ FnIdle
    /\ ChatIdle
    /\ ExtIdle

NextSugg ==
    \/ SuggClientFails
    \/ SuggNoObject
    \/ SuggBadJson
    \/ \E parsed \in SuggObjects : SuggParsed(parsed)

SpecSugg == InitSugg /\ [][NextSugg]_vars

\* entry of _ensure_math_has_number
InitEnrich ==
    /\ f_pc = "call"
    /\ f_arg \in EnrichItems
    /\ f_ret = NoQ
    /\ GenIdle
    /\ ScoreIdle
    /\ SuggIdle
    /\ ChatIdle
    /\ ExtIdle

NextEnrich == EnsureCall

SpecEnrich == InitEnrich /\ [][NextEnrich]_vars

\* two texts to be signed
InitSig ==
    /\ f_pc = "call"
    /\ f_arg \in [a : SigTexts, b : SigTexts]
    /\ f_ret = NoQ
    /\ GenIdle
    /\ ScoreIdle
    /\ SuggIdle
    /\ ChatIdle
    /\ ExtIdle

NextSig == SigCall

SpecSig == InitSig /\ [][NextSig]_vars

\* entry of _call_groq_chat
InitChat ==
    /\ c_pc = "loop"
    /\ c_key \in BOOLEAN
    /\ c_attempt = 0 /\ c_outcomes = <<>> /\ c_last_exc = NoExc /\ c_ret = ""
    /\ GenIdle
    /\ ScoreIdle
    /\ SuggIdle
    /\ FnIdle
    /\ ExtIdle

NextChat ==
    \/ ChatNoKey
    \/ \E resp \in Responses : ChatAttemptReturns(resp)
    \/ \E resp \in Responses : ChatAttemptFails(resp)
    \/ ChatExhausted

SpecChat == InitChat /\ [][NextChat]_vars

\* the swap step of a call with arguments role and n, on a list of n or
\* of n - 1 collected items
InitSwap ==
    /\ pc = "idle"
    /\ role \in Roles
    /\ n \in 1..MaxSwapN
    /\ difficulty \in Difficulties
    /\ api_key_set = TRUE /\ dev_force_create = FALSE
    /\ collected = <<>> /\ seen_sigs = {} /\ attempts = 0 /\ math_count = 0
    /\ kept = <<>> /\ removed_slots = 0 /\ r_attempts = 0
    /\ r_max_attempts = 0 /\ final = <<>> /\ missing = 0 /\ result = <<>>
    /\ got_response = FALSE /\ prompts = {} /\ last_call = ""
    /\ f_pc = "call"
    /\ f_arg \in SwapLists(n) \cup SwapLists(n - 1)
    /\ f_ret = NoQ
    /\ ScoreIdle
    /\ SuggIdle
    /\ ChatIdle
    /\ ExtIdle

NextSwap == SwapCall

SpecSwap == InitSwap /\ [][NextSwap]_vars

\* the main loop of a call with arguments role and n, at the start of an
\* iteration (fewer than n items collected) or at the end of the for loop
\* that has filled the list (n items collected)
InitQuota ==
    /\ pc = "main"
    /\ role \in Roles
    /\ n \in 1..n_questions_max_value
    /\ difficulty \in Difficulties
    /\ api_key_set = TRUE /\ dev_force_create = FALSE
    /\ \E len \in 0..n : \E m \in 0..Min(len, MaxQuotaMath) :
          /\ collected = QuotaList(len, m)
          /\ math_count = m
          /\ attempts = IF len = 0 THEN 0 ELSE 1
    /\ seen_sigs = SigsOf(collected)
    /\ kept = <<>> /\ removed_slots = 0 /\ r_attempts = 0
    /\ r_max_attempts = 0 /\ final = <<>> /\ missing = 0 /\ result = <<>>
    /\ got_response = (collected # <<>>) /\ prompts = {}
    /\ last_call = IF collected = <<>> THEN "" ELSE "array"
    /\ f_pc = "call"
    /\ f_arg = NoQ
    /\ f_ret = NoQ
    /\ ScoreIdle
    /\ SuggIdle
    /\ ChatIdle
    /\ ExtIdle

NextQuota ==
    \/ QuotaPrompt
    \/ QuotaSwap

SpecQuota == InitQuota /\ [][NextQuota]_vars

\* two calls of generate_questions_groq(role, n, difficulty) enter their
\* main loops; role, n and difficulty hold the arguments of both
InitTwo ==
    /\ pc = "idle"
    /\ role \in Roles
    /\ n \in 1..MaxN
    /\ difficulty \in Difficulties
    /\ api_key_set = TRUE /\ dev_force_create = FALSE
    /\ collected = <<>> /\ seen_sigs = {} /\ attempts = 0 /\ math_count = 0
    /\ kept = <<>> /\ removed_slots = 0 /\ r_attempts = 0
    /\ r_max_attempts = 0 /\ final = <<>> /\ missing = 0 /\ result = <<>>
    /\ got_response = FALSE /\ prompts = {} /\ last_call = ""
    /\ ScoreIdle
    /\ SuggIdle
    /\ FnIdle
    /\ ChatIdle
    /\ t_frames = [c \in Calls |-> NewFrame]
    /\ t_last = NoStep
    /\ SessIdle

NextTwo ==
    \E c \in Calls :
        \/ TwoClientFails(c)
        \/ TwoParseFails(c)
        \/ \E parsed \in TwoArrays : TwoBatch(c, parsed)
        \/ TwoExit(c)

SpecTwo == InitTwo /\ [][NextTwo]_vars

\* the GeneratedQuestion table before the session starts: empty, or rows
\* left by earlier sessions
InitialDbs ==
    { <<>>,
      <<QRow(views_signature_of_text("q c"), "tech", "q c", "llm")>>,
      <<QRow(views_signature_of_text("q c"), "tech", "q c", "llm"),
        QRow(views_signature_of_text("q a"), "hr", "q a", "llm"),
        QRow(views_signature_of_text("q d"), "hr", "q d", "template")>> }

InitSession ==
    /\ v_pc = "start" /\ v_role = "" /\ v_n = 0
    /\ v_db \in InitialDbs
    /\ v_answers = <<>> /\ v_current_index = 0 /\ v_completed = FALSE
    /\ v_messages = <<>> /\ v_started = 0 /\ v_total_score = NoScore
    /\ v_resp = NoResp
    /\ GenIdle
    /\ ScoreIdle
    /\ SuggIdle
    /\ FnIdle
    /\ ChatIdle
    /\ TwoIdle

NextSession ==
    \/ \E raw_role \in FormRoles, cnt \in 1..MaxSessN :
          \E llm \in LlmOutcomes(cnt) : StartSession(raw_role, cnt, llm)
    \/ StartSessionNoPost
    \/ \E op \in SessionOps : Forbidden(op)
    \/ NextQuestion
    \/ SubmitAnswerNoPost
    \/ SubmitAnswerNotFound
    \/ \E answer_id \in 1..Len(v_answers) : SubmitAnswer(answer_id)
    \/ SkipQuestion
    \/ EndSession
    \/ SessionSummary

SpecSession == InitSession /\ [][NextSession]_vars

\* the question page is on screen: the last response is the page that
\* next_question rendered
Presented == v_resp.op = "next_question" /\ v_resp.kind = "question"

\* a session whose user follows the pages: after start_session the user
\* asks for the next question, submits the answer form of the page shown
\* (its hidden answer_id is the Answer presented), and opens the summary
\* when redirected to it
NextFlow ==
    \/ \E raw_role \in FormRoles, cnt \in 1..MaxSessN :
          \E llm \in LlmOutcomes(cnt) : StartSession(raw_role, cnt, llm)
    \/ NextQuestion
    \/ Presented /\ SubmitAnswer(v_resp.answer)
    \/ v_resp.kind = "redirect_summary" /\ SessionSummary

SpecFlow == InitSession /\ [][NextFlow]_vars

\* the for loop goes on: every attempt ends (requests.post has a timeout,
\* time.sleep returns)
SpecChatLive == SpecChat /\ WF_vars(NextChat)

(***************************************************************************)
(* Properties of generate_questions_groq (checked under Spec)              *)
(***************************************************************************)
\* C1: every item generate_questions_groq returns has a type in the role's
\* allowed-type set, so for hr, beh and technical no returned item, from the
\* service, from a replacement call or from the stub backfill, is math.
C1_AllowedTypes ==
    pc = "done" => \A i \in 1..Len(result) : result[i].type \in allowed

\* C2: the returned list has pairwise-distinct signatures, whether the items
\* were collected in the main loop, added as replacements or as stubs.
C2_DistinctSignatures ==
    pc = "done" =>
        \A i, j \in 1..Len(result) :
            i # j => signature_of_text(result[i].text)
                         # signature_of_text(result[j].text)

\* C3: a failing client call never makes generate_questions_groq raise, and
\* when every client call fails (a missing API key included) the call
\* returns at most n items, all of them stubs whose type was inferred from
\* the text.
C3_ClientFailureFallsBack ==
    /\ pc = "raised" => got_response
    /\ (pc = "done" /\ ~got_response) =>
          /\ Len(result) <= n
          /\ \A i \in 1..Len(result) :
                 result[i].origin = "stub" /\ result[i].inferred

\* no API key, two questions asked for, the call has returned two stubs
C3_Witness ==
    /\ pc = "done"
    /\ ~api_key_set
    /\ ~got_response
    /\ attempts = 1
    /\ n = 2
    /\ Len(result) = 2

\* C4: for every n >= 1 and whatever the service sends,
\* generate_questions_groq returns, and what it returns has exactly n items.
C4_ReturnsExactlyN ==
    /\ pc # "raised"
    /\ pc = "done" => Len(result) = n


\* C16: every item of type math that generate_questions_groq returns has
\* a numeral in its text, whether it comes from the main loop, from a
\* replacement call or from the stub backfill.
C16_MathItemsHaveNumeral ==
    pc = "done" =>
        \A i \in 1..Len(result) :
            result[i].type = "math" => NumericSearch(result[i].text)

(***************************************************************************)
(* Properties of analyze_transcript (checked under SpecScore)              *)
(***************************************************************************)
\* the call has passed the scoring block of lines 66-82
Scored == a_pc \in {"tips", "done"} /\ ~NotText(a_text)

\* C5: the score analyze_transcript returns is an integer in [0,100], for
\* every answer text and every question, a null question and a question
\* with an empty keyword list included.
C5_ScoreInRange ==
    a_pc = "done" => a_result.score \in 0..100

\* a 20-word answer without fillers returned for a null question: 20+20+25
C5_Witness ==
    /\ a_pc = "done"
    /\ ~NotText(a_text)
    /\ a_question.none
    /\ a_result.score = 65

\* C6: for an empty or absent answer text and any question the call returns
\* score 0, the fixed feedback and the three fixed tips, and nothing else
\* runs: no tokenization, no keyword matching, no client call.
C6_NoAnswerShortCircuit ==
    (a_text.none \/ a_text.s = "") =>
        /\ a_pc \in {"call", "done"}
        /\ a_tokenized = "no"
        /\ ~a_matched_kw
        /\ a_client_calls = 0
        /\ a_locals = NoLocals
        /\ a_pc = "done" =>
              /\ a_result.score = 0
              /\ a_result.feedback =
                     "You did not provide an answer to this question."
              /\ a_result.improvement_tips =
                     <<"Answer the question in your own words",
                       "Explain the main idea clearly",
                       "Add an example to support your explanation">>

\* the empty answer to the question with keywords "api,rest,crud", returned
C6_Witness ==
    /\ a_pc = "done"
    /\ a_text = SomeStr("")
    /\ ~a_question.none
    /\ a_question.keywords = "api,rest,crud"
    /\ a_result = NoAnswerResult

\* C7: analyze_transcript never raises; when the tokenizer fails on a
\* non-empty answer the call returns the result of the no-answer path.
C7_NeverRaises ==
    /\ a_pc # "raised"
    /\ a_tokenized = "failed" => (a_pc = "done" /\ a_result = NoAnswerResult)

\* C8 as stated: keyword_score is matched/len(keywords)*40 rounded to the
\* nearest integer (27 for 2 of 3), and 20 without keywords.
C8_KeywordScoreRounded ==
    Scored =>
        LET k == Len(a_locals.keywords)
            m == a_locals.matched
        IN  a_locals.keyword_score =
                IF k # 0 THEN RoundHalfEven(m * 40, k) ELSE 20

\* C8 as the code has it: keyword_score is matched/len(keywords)*40
\* truncated to an integer, the largest integer s with s*k <= 40*m (26 for
\* 2 of 3), and 20 without keywords or without a question.
C8_KeywordScoreTruncated ==
    Scored =>
        LET k  == Len(a_locals.keywords)
            m  == a_locals.matched
            ks == a_locals.keyword_score
        IN  /\ a_locals.keywords = keywords_of(a_question)
            /\ IF k # 0
               THEN ks * k <= 40 * m /\ 40 * m < (ks + 1) * k
               ELSE ks = 20

\* two of three keywords matched: keyword_score 26
C8_Witness ==
    /\ Scored
    /\ Len(a_locals.keywords) = 3
    /\ a_locals.matched = 2
    /\ a_locals.keyword_score = 26

\* C9: for a non-empty answer the score is
\* max(0, keyword_score + length_score + grammar_score - filler_penalty)
\* with length_score = word_count clamped to [5,20], grammar_score =
\* 25 - min(10, 2*fillers) and filler_penalty = min(15, 3*fillers); an
\* answer of at least 20 words, no fillers and every keyword matched scores
\* exactly 85.
C9_TotalFormula ==
    Scored =>
        LET L  == a_locals
            ls == IF L.word_count < 5 THEN 5
                  ELSE IF L.word_count > 20 THEN 20 ELSE L.word_count
            gs == 25 - (IF 2 * L.fillers < 10 THEN 2 * L.fillers ELSE 10)
            fp == IF 3 * L.fillers < 15 THEN 3 * L.fillers ELSE 15
            t  == L.keyword_score + ls + gs - fp
        IN  /\ L.word_count = Len(split(a_text.s))
            /\ L.length_score = ls
            /\ L.grammar_score = gs
            /\ L.filler_penalty = fp
            /\ a_result.score = (IF t < 0 THEN 0 ELSE t)
            /\ (/\ L.word_count >= 20
                /\ L.fillers = 0
                /\ L.keywords # <<>>
                /\ L.matched = Len(L.keywords)) => a_result.score = 85

\* more than 20 words, no filler, every keyword matched: 85
C9_Witness ==
    /\ a_pc = "done"
    /\ a_locals.word_count > 20
    /\ a_locals.fillers = 0
    /\ Len(a_locals.keywords) = 2
    /\ a_locals.matched = 2
    /\ a_result.score = 85

\* C10: with the keyword list, the word count and the filler count held
\* fixed, matching m2 >= matched keywords gives a keyword_score, and a total,
\* that is not lower.
C10_MonotonicKeywords ==
    Scored =>
        LET L == a_locals
            k == Len(L.keywords)
        IN  \A m2 \in L.matched..k :
                /\ keyword_score_of(m2, k) >= L.keyword_score
                /\ total_of(keyword_score_of(m2, k), L.length_score,
                            L.grammar_score, L.filler_penalty) >= a_result.score

\* one of three keywords matched, so two larger coverages to compare with
C10_Witness ==
    /\ Scored
    /\ Len(a_locals.keywords) = 3
    /\ a_locals.matched = 1
    /\ keyword_score_of(2, 3) > a_locals.keyword_score

\* C11: for a non-empty answer the returned improvement_tips are the AI
\* list cut to its first 5 items when the tips call yields a non-empty
\* list, and exactly the rule-based tips otherwise (client failure, parse
\* failure, empty list, a result that is not a list); never a mixture,
\* never empty, never more than 5.
C11_TipsReplaceOrFallBack ==
    (a_pc = "done" /\ ~a_text.none /\ a_text.s # "") =>
        LET tips == a_result.improvement_tips
        IN  /\ IF a_ai.kind = "list" /\ a_ai.tips # <<>>
               THEN tips = [i \in 1..(IF Len(a_ai.tips) < 5
                                      THEN Len(a_ai.tips) ELSE 5) |->
                               a_ai.tips[i]]
               ELSE tips = rule_tips_of(a_locals)
            /\ Len(tips) \in 1..5

\* the tips call yields six tips, five are returned
C11_Witness ==
    /\ a_pc = "done"
    /\ a_ai.kind = "list"
    /\ Len(a_ai.tips) = 6
    /\ Len(a_result.improvement_tips) = 5

(***************************************************************************)
(* Properties of generate_session_suggestions (checked under SpecSugg)     *)
(***************************************************************************)
\* C12: whatever the answers and the service response, the returned dict
\* has the four keys strengths, improvements, overall_tip and resources and
\* none of the values is null, also when the service's object lacks a key
\* or has it null.
C12_AllKeysPopulated ==
    s_pc = "done" =>
        \A key \in SuggKeys : s_result[key].k \notin {"absent", "null"}

\* C13: every returned dict has at most 4 strengths, at most 6 improvements
\* and at most 6 resources, on the parsed path and on the fallback path.
C13_SizeBounds ==
    s_pc = "done" =>
        /\ Len(s_result.strengths.l) <= 4
        /\ Len(s_result.improvements.l) <= 6
        /\ Len(s_result.resources.l) <= 6

\* the client call, the search for "{" or json.loads failed
SuggFailed == s_pc = "done" /\ s_response.kind \in {"error", "nobrace", "badjson"}

\* t[:120]
First120(t) == IF Len(t) <= 120 THEN t ELSE SubSeq(t, 1, 120)

\* res holds the question texts (their first 120 characters) of k answers,
\* or of all when there are fewer, picked from the top of the score order
\* (highest) or from its bottom, best pick first
IsSelection(res, ans, k, highest) ==
    /\ Len(res) = (IF Len(ans) < k THEN Len(ans) ELSE k)
    /\ \A j \in 1..Len(res) :
           \E i \in 1..Len(ans) : First120(ans[i].question_text) = res[j]
    /\ LET f == [j \in 1..Len(res) |->
                    CHOOSE i \in 1..Len(ans) :
                        First120(ans[i].question_text) = res[j]]
           before(x, y) == IF highest THEN x >= y ELSE x <= y
       IN  /\ \A j1, j2 \in 1..Len(res) : j1 # j2 => f[j1] # f[j2]
           /\ \A j1, j2 \in 1..Len(res) :
                  j1 < j2 => before(ans[f[j1]].score, ans[f[j2]].score)
           /\ \A i \in 1..Len(ans) :
                  (\A j \in 1..Len(res) : f[j] # i) =>
                      \A j \in 1..Len(res) :
                          before(ans[f[j]].score, ans[i].score)

\* C14: generate_session_suggestions makes exactly one client call and
\* never raises; when the call, the search for the object or the JSON
\* parse fails it returns the local heuristic: strengths are the question
\* texts (cut to 120 characters) of the 3 highest-scoring answers,
\* improvements those of the 5 lowest-scoring ones, fewer when there are
\* fewer answers, with the fixed overall tip and the fixed 3 resources.
C14_OneCallThenFallback ==
    /\ s_pc # "raised"
    /\ s_pc = "done" => s_client_calls = 1
    /\ s_pc = "call" => s_client_calls = 0
    /\ SuggFailed =>
          /\ s_result.strengths.k = "list"
          /\ IsSelection(s_result.strengths.l, s_answers, 3, TRUE)
          /\ s_result.improvements.k = "list"
          /\ IsSelection(s_result.improvements.l, s_answers, 5, FALSE)
          /\ s_result.overall_tip =
                 JStr("Practice weaker areas identified above; do timed mock interviews and focus on concise structure.")
          /\ s_result.resources =
                 JList(<<"LeetCode", "Cracking the Coding Interview",
                         "Grokking the System Design Interview">>)

\* six answers, the first (long) question scored lowest and the last
\* highest, the client call raised: five improvements, the first of them
\* cut to 120 characters, and the last question first among the strengths
C14_Witness ==
    /\ SuggFailed
    /\ s_response.kind = "error"
    /\ Len(s_answers) = 6
    /\ s_answers[1].score = 0
    /\ s_answers[2].score = 50
    /\ s_answers[6].score = 85
    /\ Len(s_result.improvements.l) = 5
    /\ Len(s_result.improvements.l[1]) = 120
    /\ s_result.strengths.l[1] = "Question 6"

(***************************************************************************)
(* Properties of _ensure_math_has_number (checked under SpecEnrich)        *)
(***************************************************************************)
\* C15: for a validated item of type math whose text has no digit,
\* _ensure_math_has_number returns an item whose text has a numeral and
\* whose keywords include "numbers"; a reasoning item, and a math item that
\* already has a numeral, is returned unchanged.
C15_EnrichedMathHasNumber ==
    f_pc = "done" =>
        IF f_arg.type = "math" /\ ~NumericSearch(f_arg.text)
        THEN /\ NumericSearch(f_ret.text)
             /\ \E i \in 1..Len(split_on(f_ret.keywords, ",")) :
                    split_on(f_ret.keywords, ",")[i] = "numbers"
        ELSE f_ret = f_arg

(***************************************************************************)
(* Properties of signature_of_text (checked under SpecSig)                 *)
(***************************************************************************)
RECURSIVE NormalFormAcc(_, _, _)
\* t read from its i-th character: letters in lower case, a run of blanks
\* as one blank, no blank at the start
NormalFormAcc(t, i, out) ==
    IF i > Len(t) THEN out
    ELSE LET c == SubSeq(t, i, i)
         IN  IF c = " "
             THEN IF out = "" \/ SubSeq(out, Len(out), Len(out)) = " "
                  THEN NormalFormAcc(t, i + 1, out)
                  ELSE NormalFormAcc(t, i + 1, out \o " ")
             ELSE NormalFormAcc(t, i + 1,
                                out \o (IF c = "A" THEN "a" ELSE c))

\* the text in lower case, blank runs collapsed, trimmed
NormalForm(t) ==
    LET r == NormalFormAcc(t, 1, "")
    IN  IF r # "" /\ SubSeq(r, Len(r), Len(r)) = " "
        THEN SubSeq(r, 1, Len(r) - 1) ELSE r

\* C17: signature_of_text depends only on the text in lower case with its
\* whitespace runs collapsed and trimmed: two texts with that same normal
\* form have the same signature; and the copy in views.py returns the same
\* value as the function of qgen_groq.py.
C17_SignatureNormalises ==
    f_pc = "done" =>
        /\ NormalForm(f_arg.a) = NormalForm(f_arg.b) => f_ret.qa = f_ret.qb
        /\ f_ret.va = f_ret.qa

\* two different texts, in case and in blanks, with one signature
C17_Witness ==
    /\ f_pc = "done"
    /\ f_arg.a = " a A"
    /\ f_arg.b = "A  a"
    /\ f_ret.qa = f_ret.qb
    /\ f_ret.va = f_ret.qa

(***************************************************************************)
(* Claims: _call_groq_chat                                                 *)
(***************************************************************************)
\* the attempt handed content to the caller's side of the loop
YieldsContent(resp) ==
    /\ resp.kind = "response"
    /\ resp.shape # "malformed"
    /\ ContentOf(resp) # ""

C18_State ==
    /\ c_attempt <= MAX_RETRIES
    /\ Len(c_outcomes) = c_attempt
    /\ c_pc = "returned" =>
          /\ c_attempt >= 1
          /\ YieldsContent(c_outcomes[c_attempt])
          /\ c_ret = ContentOf(c_outcomes[c_attempt])
          /\ \A i \in 1..(c_attempt - 1) : ~YieldsContent(c_outcomes[i])
    /\ (c_pc = "raised" /\ c_key) =>
          /\ c_attempt = MAX_RETRIES
          /\ \A i \in 1..MAX_RETRIES : ~YieldsContent(c_outcomes[i])
          /\ c_last_exc = [attempt |-> MAX_RETRIES,
                           exc |-> FailureOf(c_outcomes[MAX_RETRIES])]

\* C18: one call of _call_groq_chat makes at most MAX_RETRIES = 4 HTTP
\* attempts, returns the content of the first attempt that yields non-empty
\* content, after 4 failed attempts raises the failure of the last attempt,
\* and always ends by returning or raising.
C18_BoundedRetries ==
    /\ [](C18_State)
    /\ <>(c_pc \in {"returned", "raised"})

\* four attempts failed in different ways and the call raised the last one
C18_Witness ==
    /\ c_pc = "raised" /\ c_key /\ c_attempt = MAX_RETRIES
    /\ c_outcomes[1].kind = "exception"
    /\ c_outcomes[MAX_RETRIES].kind = "response"
    /\ c_last_exc.exc = "Empty content returned by Groq"

\* C19: an attempt whose response has a non-2xx status, whose request
\* raises, or whose extracted content is empty is never the one whose
\* content is returned.
C19_FailedAttemptsNotReturned ==
    c_pc = "returned" =>
        LET resp == c_outcomes[c_attempt] IN
          /\ resp.kind = "response"
          /\ resp.status \in 200..299
          /\ ContentOf(resp) # ""

(***************************************************************************)
(* Claims: the zero math quota                                             *)
(***************************************************************************)
\* every prompt sent so far carries the zero-math instruction
ZeroMathPrompts == \A p \in prompts : p.math_clause.zero

\* the items of the result that came from the service and are math,
\* declared or detected
ServiceMathInResult ==
    {i \in 1..Len(result) :
        /\ result[i].origin \in {"llm", "replacement"}
        /\ _is_math_question(result[i])}

\* C20 as stated: when math_needed_total is 0, every prompt carries the
\* zero-math instruction and no math item returned by the service is in
\* the final result, whatever the role.
C20_ZeroQuotaDropsMath ==
    math_needed_total = 0 =>
        /\ ZeroMathPrompts
        /\ pc = "done" => ServiceMathInResult = {}

\* C20: when math_needed_total is 0, every prompt carries the zero-math
\* instruction; and when the role's allowed types exclude math, no math
\* item returned by the service is in the final result.
C20_ZeroQuotaDropsDisallowedMath ==
    math_needed_total = 0 =>
        /\ ZeroMathPrompts
        /\ (pc = "done" /\ "math" \notin allowed) => ServiceMathInResult = {}

\* a zero-quota request whose math item was removed and replaced
C20_Witness ==
    /\ pc = "done" /\ math_needed_total = 0 /\ "math" \notin allowed
    /\ prompts # {}
    /\ \E i \in 1..Len(result) : result[i].origin = "replacement"

(***************************************************************************)
(* Claims: generate_questions_groq, exhaustion and termination             *)
(***************************************************************************)
\* C21 as stated: a call that ends with no valid item collected returns an
\* empty list.
C21_EmptyWhenNothingCollected ==
    (pc = "done" /\ collected = <<>>) => result = <<>>

\* C21: a call whose main loop ended (budget exhausted or client failure)
\* with no valid item collected returns n items, all of them stubs that
\* the operation added itself.
C21_StubsWhenNothingCollected ==
    (pc = "done" /\ collected = <<>>) =>
        /\ Len(result) = n
        /\ \A i \in 1..Len(result) : result[i].origin = "stub"

\* the whole attempt budget was spent on responses without a valid item
C21_Witness ==
    /\ pc = "done" /\ collected = <<>> /\ got_response
    /\ attempts = max_attempts /\ n = MaxN
    /\ Len(result) = n

(***************************************************************************)
(* Claims: two generate calls                                              *)
(***************************************************************************)
\* what the step recorded in t_last makes of frame f when f is the only
\* call there is
AloneStep(f, step) ==
    IF step.kind = "fails"
    THEN [f EXCEPT !.attempts = @ + 1, !.pc = "left"]
    ELSE IF step.kind = "noparse" THEN [f EXCEPT !.attempts = @ + 1]
    ELSE IF step.kind = "exit" THEN [f EXCEPT !.pc = "left"]
    ELSE LET st == MainItems(step.parsed, f.collected, f.seen_sigs,
                             f.math_count)
             sw == IF st.raised THEN st ELSE MathSwap(st)
         IN  [pc |-> IF st.raised THEN "raised" ELSE "main",
              collected |-> sw.collected, seen_sigs |-> sw.seen_sigs,
              attempts |-> f.attempts + 1, math_count |-> sw.math_count]

\* C22: seen_sigs and collected are local to one call: a step of one call
\* leaves the other call's state alone, and what it accepts or rejects is
\* what it would accept or reject if no other call existed.
C22_DedupStateIsLocal ==
    [][\A c \in Calls :
          t_last'.call = c =>
             /\ t_frames'[c] = AloneStep(t_frames[c], t_last')
             /\ \A d \in Calls \ {c} : t_frames'[d] = t_frames[d]]_vars

\* both calls accepted an item of the same signature
C22_Witness ==
    /\ t_frames # <<>>
    /\ t_frames[1].collected # <<>> /\ t_frames[2].collected # <<>>
    /\ t_frames[1].seen_sigs \cap t_frames[2].seen_sigs # {}
    /\ t_frames[1].pc = "main"

(***************************************************************************)
(* Claims: views.py, the session                                           *)
(***************************************************************************)
\* C23: the session has the Answer rows start_session created, with
\* indices 1..k in creation order and k <= n, and no later request adds a
\* question or an Answer row to it.
C23_OnlyQuestionsOfStart ==
    v_pc = "live" =>
        /\ v_started <= v_n
        /\ Len(v_answers) = v_started
        /\ \A i \in 1..Len(v_answers) : v_answers[i].index = i

\* the questions the Answer rows of the session reference
AttachedQuestions == {v_answers[i].question : i \in 1..Len(v_answers)}

\* start_session has just answered
JustStarted == v_pc = "live" /\ v_resp.op = "start_session"

\* C24: when start_session ends with fewer than n distinct questions
\* attached, the user got the notice "Only created k/n", and no other
\* notice is ever queued by start_session.
C24_ShortfallNoticeOnly ==
    JustStarted =>
        /\ Cardinality(AttachedQuestions) < v_n =>
              \E i \in 1..Len(v_messages) :
                  v_messages[i].kind = "only_created"
        /\ \A i \in 1..Len(v_messages) : v_messages[i].kind = "only_created"

(***************************************************************************)
(* Claims: generate_questions_groq, loops                                  *)
(***************************************************************************)
\* an upper bound of the steps a call can still take: the iterations left
\* in the loop it is in, plus the most the later loops can take
StepsLeft ==
    LET after_replace == n + 1
        after_enforce == Max(2, 3 * n) + 1 + after_replace
    IN  CASE pc = "main" -> (max_attempts - attempts) + 2 + after_enforce
          [] pc = "enforce" -> 1 + after_enforce
          [] pc = "replace" ->
                (r_max_attempts - r_attempts) + 1 + after_replace
          [] pc = "backfill" -> missing + 1
          [] OTHER -> 0

\* C25: generate_questions_groq always ends (returns or raises); its main
\* loop makes at most max(3, 3*n) client calls, and every iteration of the
\* main loop, whatever the response, adds one to the attempt counter.
\* Termination is stated with a measure: a natural number that every step
\* of the call makes smaller.
C25_BoundedMainLoop ==
    /\ [](attempts <= max_attempts)
    /\ [][(pc = "main" /\ MainLoopCond) => attempts' = attempts + 1]_vars
    /\ [](StepsLeft \in Nat)
    /\ [][StepsLeft' < StepsLeft]_vars

\* the budget ran out with the list still short although items were
\* collected
C25_Witness ==
    /\ pc = "done" /\ attempts = max_attempts /\ n = MaxN
    /\ collected # <<>> /\ Len(collected) < n

\* C26: a main-loop response without a bracketed span, with invalid JSON
\* or with JSON that is not a list does not end generation: the iteration
\* is counted, the collected items, their signatures and the math count
\* stay as they were, and the loop goes on to test its condition again.
C26_ParseFailureContinues ==
    [][(pc = "main" /\ last_call' = "unparsable" /\ attempts' # attempts) =>
          /\ pc' = "main"
          /\ attempts' = attempts + 1
          /\ collected' = collected
          /\ seen_sigs' = seen_sigs
          /\ math_count' = math_count]_vars

\* an unparsable response arrived after an item was collected, and
\* attempts remain
C26_Witness ==
    /\ pc = "main" /\ last_call = "unparsable"
    /\ collected # <<>> /\ MainLoopCond

\* the replacement phase is left in this step
LeavesReplace == pc = "replace" /\ pc' = "backfill"

\* the items of a list that came from a replacement call
ReplacementsIn(items) ==
    {i \in 1..Len(items) : items[i].origin = "replacement"}

\* C27 as stated: the replacement phase is left only when every removed
\* slot is refilled or max(2, 3*r) replacement calls have been made.
C27_LeavesOnlyWhenExhausted ==
    [][LeavesReplace =>
          \/ removed_slots = 0
          \/ r_attempts >= r_max_attempts
          \/ r_attempts + 1 >= r_max_attempts]_vars

\* C27: every replacement call asks for exactly the unfilled slots with
\* the zero-math instruction; at most max(2, 3*r) calls are made; the
\* phase is left when every slot is refilled, when the budget is spent, or
\* at once when a replacement call raises or its response cannot be
\* parsed; and no replacement item is of a disallowed type.
C27_ReplacementPhase ==
    /\ [][(pc = "replace" /\ ReplLoopCond) =>
             _build_prompt(removed_slots, 0) \in prompts']_vars
    /\ [](pc = "replace" => r_attempts <= r_max_attempts)
    /\ [][LeavesReplace =>
             \/ removed_slots = 0
             \/ r_attempts >= r_max_attempts
             \/ last_call' \in {"raised", "unparsable"}]_vars
    /\ [](\A i \in ReplacementsIn(kept) : ~Disallowed(kept[i]))
    /\ [](\A i \in ReplacementsIn(result) : ~Disallowed(result[i]))

\* one slot was refilled, then a replacement response could not be parsed
\* and the other slot went to a stub
C27_Witness ==
    /\ pc = "done" /\ last_call = "unparsable"
    /\ ReplacementsIn(result) # {}
    /\ \E i \in 1..Len(result) : result[i].origin = "stub"

(***************************************************************************)
(* Claims: the math swap                                                   *)
(***************************************************************************)
\* the positions of the items of a list whose type is not math
NonMath(coll) == {i \in 1..Len(coll) : coll[i].type # "math"}

\* the items of coll at the positions in keep, in the order of coll
ItemsAt(coll, keep) ==
    [k \in 1..Cardinality(keep) |->
        coll[CHOOSE i \in keep : Cardinality({j \in keep : j < i}) = k - 1]]

\* the first k positions of non-math items of coll
FirstNonMath(coll, k) ==
    {i \in NonMath(coll) : Cardinality({j \in NonMath(coll) : j < i}) < k}

SwapDeficit == math_needed_total - CountMath(f_arg)

\* C28: on a list of n items with math_count < math_needed_total the swap
\* removes min(deficit, number of non-math items) items, namely the first
\* non-math items of the list, keeps every math item and the order of the
\* kept items, and sets seen_sigs to the signatures of the kept items; any
\* other list is left as it is.
C28_SwapRemovesFirstNonMath ==
    f_pc = "done" =>
        IF Len(f_arg) >= n /\ SwapDeficit > 0
        THEN LET gone == FirstNonMath(f_arg, SwapDeficit)
             IN  /\ Cardinality(gone)
                      = Min(SwapDeficit, Cardinality(NonMath(f_arg)))
                 /\ f_ret.collected
                      = ItemsAt(f_arg, (1..Len(f_arg)) \ gone)
                 /\ f_ret.seen_sigs = SigsOf(f_ret.collected)
                 /\ f_ret.math_count = CountMath(f_ret.collected)
        ELSE f_ret = SwapState(f_arg)

\* a deficit of two on a list with a math item between non-math items
C28_Witness ==
    /\ f_pc = "done" /\ n = MaxSwapN /\ Len(f_arg) = n
    /\ SwapDeficit > 0
    /\ f_arg[1].type # "math" /\ f_arg[2].type = "math"
    /\ Len(f_ret.collected) < Len(f_arg)
    /\ f_ret.collected[1].type = "math"

(***************************************************************************)
(* Claims: the order of the returned list                                  *)
(***************************************************************************)
\* the place of an origin in the order of assembly
OriginRank(item) ==
    CASE item.origin = "llm" -> 1
      [] item.origin = "replacement" -> 2
      [] OTHER -> 3

\* the position of an item in the collected list, 0 when it is not there
PosInCollected(item) ==
    IF \E i \in 1..Len(collected) : collected[i] = item
    THEN CHOOSE i \in 1..Len(collected) : collected[i] = item
    ELSE 0

\* C29: the returned list has the kept service items first, in the order
\* in which the main loop accepted them, then the replacement items, then
\* the stubs.
C29_OrderedByOrigin ==
    pc = "done" =>
        \A i, j \in 1..Len(result) :
            i < j =>
              /\ OriginRank(result[i]) <= OriginRank(result[j])
              /\ (result[i].origin = "llm" /\ result[j].origin = "llm") =>
                    /\ PosInCollected(result[i]) > 0
                    /\ PosInCollected(result[i]) < PosInCollected(result[j])

\* a kept service item is followed by a replacement item
C29_Witness ==
    /\ pc = "done" /\ Len(result) = 2
    /\ result[1].origin = "llm" /\ result[2].origin = "replacement"

(***************************************************************************)
(* Claims: the template set of the backfill stubs                          *)
(***************************************************************************)
\* the templates key of the category a normalized role key stands for
RoleCategory(k) ==
    CASE k = "technical" -> "tech"
      [] k = "aptitude"  -> "apt"
      [] k = "hr"        -> "hr"
      [] k = "beh"       -> "beh"
      [] OTHER           -> "tech"

\* the texts a backfill item can have when its stub is drawn from the
\* template set of the category of role key k, with and without the
\* " (variant)" suffix of line 381
CategoryTexts ==
    [k \in RoleKeys, d \in Difficulties |->
        UNION { {strip(st.text), strip(st.text \o " (variant)")} :
                  st \in StubDraws(RoleCategory(k), d) }]

\* C30: every stub that generate_questions_groq returns is drawn from the
\* template set of the category of the request's role: aptitude templates
\* for a role that normalizes to aptitude, HR templates for hr, behavioral
\* templates for behavioral, technical templates for technical and for a
\* role of no known category.
C30_StubFromRoleCategory ==
    pc = "done" =>
        \A i \in 1..Len(result) :
            result[i].origin = "stub" =>
                result[i].text \in CategoryTexts[role_key, difficulty]

\* the same for the roles that do not normalize to aptitude
StubFromRoleCategoryButAptitude ==
    (pc = "done" /\ role_key # "aptitude") =>
        \A i \in 1..Len(result) :
            result[i].origin = "stub" =>
                result[i].text \in CategoryTexts[role_key, difficulty]

(***************************************************************************)
(* Claims: the text of a validated item                                    *)
(***************************************************************************)
\* C31: every item in the list generate_questions_groq returns has a
\* non-empty text; a service item whose text is missing, not a string,
\* empty or made of whitespace only is never collected.
C31_NonEmptyText ==
    /\ \A i \in 1..Len(collected) : collected[i].text # ""
    /\ pc = "done" => \A i \in 1..Len(result) : result[i].text # ""

(***************************************************************************)
(* Claims: the math quota of a role that excludes math (SpecQuota)         *)
(***************************************************************************)
\* the role of the call allows reasoning items only
ExcludesMath == "math" \notin ROLE_ALLOWED_TYPES[role_key]

\* C32: for a role whose allowed types exclude math (technical, hr, beh)
\* and every n in 1..30, the prompt of a main-loop iteration asks for no
\* math item, and the swap step removes nothing from the collected list.
C32_NoMathQuotaWhenMathExcluded ==
    ExcludesMath =>
        /\ \A p \in prompts : p.math_clause.zero
        /\ (f_pc = "done" /\ Len(collected) >= n) =>
              f_ret.collected = collected

\* the same for the roles whose ratio is 0.0
QuotaZeroForZeroRatio ==
    ROLE_MATH_RATIO[role_key] = 0 =>
        /\ \A p \in prompts : p.math_clause.zero
        /\ (f_pc = "done" /\ Len(collected) >= n) =>
              f_ret.collected = collected

(***************************************************************************)
(* Claims: a client failure in the main loop                               *)
(***************************************************************************)
\* C33: the first client failure of the main loop ends the loop at once,
\* whatever budget remains: the step leaves the collected items, their
\* signatures and the math count as they were and goes on to the
\* enforcement of the allowed types, and the main loop is never entered
\* again, so that at most one client call of the main loop fails.
C33_ClientFailureEndsMainLoop ==
    /\ [][(pc = "main" /\ attempts' # attempts /\ last_call' = "raised") =>
            /\ pc' = "enforce"
            /\ collected' = collected
            /\ seen_sigs' = seen_sigs
            /\ math_count' = math_count]_vars
    /\ [][pc # "main" => pc' # "main"]_vars

\* the client has failed after an item was collected, while attempts
\* remained
C33_Witness ==
    /\ pc = "enforce" /\ last_call = "raised"
    /\ collected # <<>> /\ MainLoopCond

(***************************************************************************)
(* Claims: the order of the questions of a session (SpecFlow)              *)
(***************************************************************************)
\* the Answers of a list that are processed
ProcessedIn(answers) == {i \in 1..Len(answers) : answers[i].processed}

\* C34: next_question presents the unprocessed Answer of lowest index and
\* redirects to the summary exactly when no unprocessed Answer remains;
\* when the user submits every answer presented, each submission processes
\* one more Answer, the Answer presented after j submissions is the one of
\* index j + 1, and the redirect to the summary comes when all k
\* placeholders, and no fewer, have been submitted.
C34_QuestionsInIndexOrder ==
    /\ [][(v_resp'.op = "next_question") =>
            /\ (v_resp'.kind = "redirect_summary") <=> (Unprocessed = {})
            /\ Unprocessed # {} =>
                  /\ v_resp'.kind = "question"
                  /\ v_resp'.answer \in Unprocessed
                  /\ \A b \in Unprocessed :
                        v_answers[v_resp'.answer].index <= v_answers[b].index]_vars
    /\ [][(v_resp'.op = "submit_answer") =>
            Cardinality(ProcessedIn(v_answers'))
                = Cardinality(ProcessedIn(v_answers)) + 1]_vars
    /\ [](/\ Len(v_answers) = v_started
          /\ \A i \in 1..Len(v_answers) : v_answers[i].index = i
          /\ ProcessedIn(v_answers)
                = 1..Cardinality(ProcessedIn(v_answers)))
    /\ [](Presented =>
            v_answers[v_resp.answer].index
                = Cardinality(ProcessedIn(v_answers)) + 1)
    /\ []((v_resp.op = "next_question" /\ v_resp.kind = "redirect_summary")
            => Cardinality(ProcessedIn(v_answers)) = v_started)

\* a session of two placeholders, both submitted, and next_question has
\* redirected to the summary
C34_Witness ==
    /\ v_resp.op = "next_question" /\ v_resp.kind = "redirect_summary"
    /\ v_started = 2
    /\ ProcessedIn(v_answers) = {1, 2}

(***************************************************************************)
(* Claims: the questions attached by start_session (SpecSession)           *)
(***************************************************************************)
\* C35: the Answer rows start_session creates for a session reference
\* pairwise distinct questions, whether the items came from
\* generate_questions_groq or from the stub loop.
C35_DistinctQuestionsAttached ==
    JustStarted =>
        \A i, j \in 1..Len(v_answers) :
            i # j => v_answers[i].question # v_answers[j].question

(***************************************************************************)
(* Claims: skip_question (SpecSession)                                     *)
(***************************************************************************)
\* the indices of the unprocessed Answers of a list
UnprocessedIndices(answers) ==
    {answers[i].index : i \in {j \in 1..Len(answers) : ~answers[j].processed}}

\* the index of the Answer next_question presents for a list, 0 when it
\* redirects to the summary
IndexPresented(answers) ==
    IF UnprocessedIndices(answers) = {} THEN 0
    ELSE CHOOSE x \in UnprocessedIndices(answers) :
            \A y \in UnprocessedIndices(answers) : x <= y

\* C36: a skip_question request on a session whose current question is
\* the Answer of index i completes without error, and afterwards
\* next_question does not present the Answer of index i any more.
C36_SkipLeavesCurrentQuestion ==
    [][(/\ v_resp'.op = "skip_question"
        /\ v_resp'.kind # "forbidden"
        /\ v_current_index > 0
        /\ IndexPresented(v_answers) = v_current_index) =>
          /\ v_resp'.kind = "redirect_next"
          /\ IndexPresented(v_answers') # v_current_index]_vars

(***************************************************************************)
(* Claims: the range of the score of an answer (SpecScore)                 *)
(***************************************************************************)
\* C37: for every answer text that is not empty the score
\* analyze_transcript returns lies in 5..85: the sum of line 82 is at
\* least 5, so that max(0, ...) never changes it, and a returned score of
\* 0 means that the answer was empty or absent.
C37_ScoreOfAnswerInRange ==
    /\ Scored =>
          /\ a_result.score \in 5..85
          /\ a_result.score = a_locals.keyword_score + a_locals.length_score
                                + a_locals.grammar_score
                                - a_locals.filler_penalty
    /\ (a_pc = "done" /\ a_result.score = 0) => NotText(a_text)

\* an answer of five or more fillers that matches none of the question's
\* keywords has got the lowest score
C37_Witness ==
    /\ a_pc = "done" /\ ~NotText(a_text)
    /\ a_locals.fillers >= 5 /\ a_locals.keyword_score = 0
    /\ a_result.score = 5

\* an answer of twenty words without fillers that matches every keyword
\* has got the highest score
ScoreHighest ==
    /\ a_pc = "done" /\ ~NotText(a_text)
    /\ a_result.score = 85

====
